---- MODULE Spec2Model ----
(***************************************************************************)
(* The temporal codec of chroma-ascii: VideoEncoder (keyframes and deltas  *)
(* over palette-indexed frames) and VideoDecoder (load, play, pause and    *)
(* the timed reconstruction loop), with the frames that                    *)
(* AsciiProcessor.process assembles as the encoder's input; and            *)
(* AsciiProcessor itself: the quantizer, the colour packer, the frame      *)
(* assembly and drawFrame's unpacking.                                     *)
(*                                                                         *)
(* JavaScript values are modelled as follows.  An optional value (null or  *)
(* undefined in the source) is the empty sequence Null, a present value v  *)
(* is the one-element sequence Some(v).  Arrays are sequences; a source    *)
(* index i is the model index i + 1.  A string is a sequence of            *)
(* one-character strings.                                                  *)
(***************************************************************************)
EXTENDS Integers, Sequences, FiniteSets, TLC

VARIABLES
    frames,               \* VideoEncoder.frames: the records of the session
    isEncoding,           \* VideoEncoder.isEncoding
    lastFrameData,        \* VideoEncoder.lastFrameData (optional frame)
    framesSinceKeyframe,  \* VideoEncoder.framesSinceKeyframe
    keyframeInterval,     \* VideoEncoder.keyframeInterval
    inputs,               \* history: the frames addFrame accepted this session
    blob,                 \* what the latest encoder call returned (optional)
    ignoredCall,          \* history: addFrame returned at its guard since start
    callerFrame,          \* the caller's frame object the session took last
    aliased,              \* places of the encoder that are that very object
    data,                 \* VideoDecoder.data (optional parsed document)
    dataInputs,           \* history: the inputs behind the loaded document
    isPlaying,            \* VideoDecoder.isPlaying
    startTime,            \* VideoDecoder.startTime
    reconstructedFrame,   \* VideoDecoder.reconstructedFrame (optional frame)
    lastProcessedIndex,   \* VideoDecoder.lastProcessedIndex
    now,                  \* Date.now()
    pending,              \* loop callbacks queued with requestAnimationFrame
    delivered,            \* argument of the latest onFrame call (optional)
    rendered,             \* whether the latest step called onFrame
    loadResult,           \* outcome of the latest load
    loadedText,           \* history: the text the latest load was given
    thrown,               \* exception that escaped the latest play or loop
    paused,               \* history: pause() was called and play() not since
    lastTick,             \* history: what the latest loop run computed
    finishCalls,          \* history: times the onFinish callback was invoked
    exported,             \* frames the latest GIF export added (optional)
    options,              \* AsciiProcessor.options
    renderCtx,            \* AsciiProcessor.renderCtx is set
    currentFrameData,     \* AsciiProcessor.currentFrameData (optional frame)
    sample,               \* the adjusted raster the source draws as (optional)
    painted               \* history: fill colour drawFrame used for each cell

encVars == <<frames, isEncoding, lastFrameData, framesSinceKeyframe,
             keyframeInterval, inputs, blob, ignoredCall, callerFrame,
             aliased>>
decVars == <<data, dataInputs, isPlaying, startTime, reconstructedFrame,
             lastProcessedIndex, now, pending, delivered, rendered,
             loadResult, loadedText, thrown, paused, lastTick, finishCalls,
             exported>>
procVars == <<options, renderCtx, currentFrameData, sample, painted>>
vars == <<encVars, decVars, procVars>>

(***************************************************************************)
(* Bounds of the model.                                                    *)
(***************************************************************************)
MaxFrames == 3      \* longest encode session
MaxInterval == 1    \* keyframe intervals 1..MaxInterval besides the default
MaxNow == 400       \* the clock stops here
MaxPending == 2     \* most loop callbacks queued at once

(***************************************************************************)
(* Optional values.                                                        *)
(***************************************************************************)
Null == <<>>
Some(v) == <<v>>
IsNull(o) == o = <<>>
Val(o) == o[1]

(***************************************************************************)
(* Frames, as AsciiProcessor.process assembles them.                       *)
(***************************************************************************)

\* charset[idx]; an index outside the string reads undefined.
CharAt(charset, idx) ==
    IF idx \in 0..(Len(charset) - 1) THEN charset[idx + 1] ELSE "undefined"

\* The text of a frame: per row, charset[idx] of each cell, then "\n".
TextOf(w, h, charset, charIndices) ==
    [k \in 1..(h * (w + 1)) |->
        LET row == (k - 1) \div (w + 1)
            col == (k - 1) % (w + 1)
        IN  IF col = w THEN "\n"
            ELSE CharAt(charset, charIndices[row * w + col + 1])]

\* currentFrameData as process() assembles it: colors is null unless
\* colorMode is 'color'.
MakeFrame(w, h, charset, charIndices, colors) ==
    [width |-> w, height |-> h, charIndices |-> charIndices,
     colors |-> colors, charset |-> charset,
     text |-> TextOf(w, h, charset, charIndices)]

\* for (y) for (x): one palette index per cell, each below charset.length;
\* one packed colour per cell when colours are kept.
FramesOf(dims, charsets, codes) ==
    UNION { UNION { { MakeFrame(d[1], d[2], cs, ci, co) :
                        ci \in [1..(d[1] * d[2]) -> 0..(Len(cs) - 1)],
                        co \in {Null} \cup
                               { Some(c) : c \in [1..(d[1] * d[2]) -> codes] } }
                    : cs \in charsets }
            : d \in dims }

(***************************************************************************)
(* JSON.  Numbers, strings, arrays of them and null survive                *)
(* JSON.stringify / JSON.parse unchanged; a member whose value is          *)
(* undefined is left out of the text and so is absent after parsing.  The  *)
(* result shares nothing with its argument.                                *)
(***************************************************************************)
JSONCopySeq(a) == [i \in 1..Len(a) |-> a[i]]

\* JSONCopyFrame on a frame whose colours are a typed array, which JSON
\* does not write as an array.
JSONCopyFrameTypedColors(f) ==
    [width |-> f.width, height |-> f.height,
     charIndices |-> JSONCopySeq(f.charIndices),
     colors |-> Null,
     charset |-> JSONCopySeq(f.charset),
     text |-> JSONCopySeq(f.text)]

JSONCopyFrame(f) ==
    [width |-> f.width, height |-> f.height,
     charIndices |-> JSONCopySeq(f.charIndices),
     colors |-> IF IsNull(f.colors) THEN Null
                ELSE Some(JSONCopySeq(Val(f.colors))),
     charset |-> JSONCopySeq(f.charset),
     text |-> JSONCopySeq(f.text)]

JSONCopyRecord(r) ==
    [t |-> r.t, type |-> r.type,
     d |-> IF IsNull(r.d) THEN Null ELSE Some(JSONCopyFrame(Val(r.d))),
     cd |-> IF IsNull(r.cd) THEN Null ELSE Some(JSONCopySeq(Val(r.cd))),
     td |-> IF IsNull(r.td) THEN Null ELSE Some(JSONCopySeq(Val(r.td))),
     id |-> IF IsNull(r.id) THEN Null ELSE Some(JSONCopySeq(Val(r.id)))]

(***************************************************************************)
(* VideoEncoder                                                            *)
(***************************************************************************)
DefaultKeyframeInterval == 30

\* for (i = 0; i < current.length; i++)
\*     if (current[i] !== last[i]) diff.push(i, current[i]);
\* i is the model index; last[i] beyond last's end is undefined.
RECURSIVE DiffFrom(_, _, _)
DiffFrom(current, last, i) ==
    IF i > Len(current) THEN <<>>
    ELSE (IF i > Len(last) \/ current[i] # last[i]
          THEN <<i - 1, current[i]>> ELSE <<>>)
         \o DiffFrom(current, last, i + 1)

\* if (currentColors && lastColors) { ... }
ColorDiff(frameData, last) ==
    IF ~IsNull(frameData.colors) /\ ~IsNull(last.colors)
    THEN DiffFrom(Val(frameData.colors), Val(last.colors), 1)
    ELSE <<>>

TextDiff(frameData, last) ==
    DiffFrom(frameData.charIndices, last.charIndices, 1)

\* IsKeyframe without the comparison of heights.
IsKeyframeNoHeight(frameData) ==
    \/ IsNull(lastFrameData)
    \/ framesSinceKeyframe >= keyframeInterval
    \/ Val(lastFrameData).width # frameData.width

\* IsKeyframe with the interval reached one frame late.
IsKeyframeLateInterval(frameData) ==
    \/ IsNull(lastFrameData)
    \/ framesSinceKeyframe > keyframeInterval
    \/ Val(lastFrameData).width # frameData.width
    \/ Val(lastFrameData).height # frameData.height

\* IsKeyframe without the counter.
IsKeyframeNoInterval(frameData) ==
    \/ IsNull(lastFrameData)
    \/ Val(lastFrameData).width # frameData.width
    \/ Val(lastFrameData).height # frameData.height

IsKeyframe(frameData) ==
    \/ IsNull(lastFrameData)
    \/ framesSinceKeyframe >= keyframeInterval
    \/ Val(lastFrameData).width # frameData.width
    \/ Val(lastFrameData).height # frameData.height

KeyframeRecord(frameData, time) ==
    [t |-> time, type |-> "f", d |-> Some(frameData), cd |-> Null,
     td |-> Null, id |-> Null]

\* cd: colorDiff.length > 0 ? colorDiff : undefined, and id likewise
DeltaRecord(frameData, time) ==
    LET colorDiff == ColorDiff(frameData, Val(lastFrameData))
        textDiff == TextDiff(frameData, Val(lastFrameData))
    IN  [t |-> time, type |-> "d", d |-> Null,
         cd |-> IF Len(colorDiff) > 0 THEN Some(colorDiff) ELSE Null,
         td |-> Null,
         id |-> IF Len(textDiff) > 0 THEN Some(textDiff) ELSE Null]

\* addFrame without its guard.
NotEncodingNever == FALSE

\* if (!this.isEncoding) return;
NotEncoding == ~isEncoding

\* Start that keeps the diff base of the session before.
StartKeepsLastFrame ==
    /\ frames' = <<>>
    /\ isEncoding' = TRUE
    /\ framesSinceKeyframe' = 0
    /\ inputs' = <<>>
    /\ blob' = Null
    /\ ignoredCall' = FALSE
    /\ callerFrame' = Null
    /\ aliased' = {}
    /\ UNCHANGED <<lastFrameData, keyframeInterval, decVars, procVars>>

\* Start that leaves the keyframe counter as it was.
StartKeepsCounter ==
    /\ frames' = <<>>
    /\ isEncoding' = TRUE
    /\ lastFrameData' = Null
    /\ inputs' = <<>>
    /\ blob' = Null
    /\ ignoredCall' = FALSE
    /\ callerFrame' = Null
    /\ aliased' = {}
    /\ UNCHANGED <<framesSinceKeyframe, keyframeInterval, decVars, procVars>>

Start ==
    /\ frames' = <<>>
    /\ isEncoding' = TRUE
    /\ lastFrameData' = Null
    /\ framesSinceKeyframe' = 0
    /\ inputs' = <<>>
    /\ blob' = Null
    /\ ignoredCall' = FALSE
    /\ callerFrame' = Null
    /\ aliased' = {}
    /\ UNCHANGED <<keyframeInterval, decVars, procVars>>

\* Where the encoder keeps what it was given.  A place is the index of a
\* record of frames, whose d member is meant, or LastFramePlace for
\* lastFrameData.  aliased holds the places that are the caller's object
\* itself, so that a later write of the caller shows there.
LastFramePlace == 0

\* lastFrameData kept as the caller's object.
LastFrameShared(frameData) == [frame |-> frameData, own |-> FALSE]

\* this.lastFrameData = JSON.parse(JSON.stringify(frameData)): an object of
\* the encoder's own.
LastFrameCopy(frameData) == [frame |-> JSONCopyFrame(frameData), own |-> TRUE]

\* addFrame on an object that the places in held already are.
AddFrameCall(frameData, time, held) ==
    /\ Len(frames) < MaxFrames
    /\ IF NotEncoding
       THEN /\ ignoredCall' = TRUE
            /\ UNCHANGED <<frames, lastFrameData, framesSinceKeyframe, inputs,
                           callerFrame, aliased>>
       ELSE /\ ignoredCall' = ignoredCall
            /\ IF IsKeyframe(frameData)
               THEN /\ frames' = Append(frames, KeyframeRecord(frameData, time))
                    /\ framesSinceKeyframe' = 0
               ELSE /\ frames' = Append(frames, DeltaRecord(frameData, time))
                    /\ framesSinceKeyframe' = framesSinceKeyframe + 1
            /\ lastFrameData' = Some(LastFrameCopy(frameData).frame)
            /\ inputs' = Append(inputs, frameData)
            /\ callerFrame' = Some(frameData)
            /\ aliased' =
                 (held \ {LastFramePlace})
                 \cup (IF IsKeyframe(frameData) THEN {Len(frames) + 1} ELSE {})
                 \cup (IF LastFrameCopy(frameData).own THEN {}
                       ELSE {LastFramePlace})
    /\ blob' = Null
    /\ UNCHANGED <<isEncoding, keyframeInterval, decVars, procVars>>

\* addFrame on an object the encoder has not seen, as process() builds one
\* on every call.
AddFrame(frameData, time) == AddFrameCall(frameData, time, {})

\* addFrame on the object of the call before, as a caller that keeps one
\* frame buffer passes it.
AddSameFrame(time) ==
    /\ ~IsNull(callerFrame)
    /\ AddFrameCall(Val(callerFrame), time, aliased)

\* The caller writes into the object it passed: its cells become those of
\* g.  Every place that is the object shows the write.
MutateFrame(g) ==
    /\ ~IsNull(callerFrame)
    /\ g # Val(callerFrame)
    /\ g.width = Val(callerFrame).width
    /\ g.height = Val(callerFrame).height
    /\ callerFrame' = Some(g)
    /\ frames' = [i \in 1..Len(frames) |->
                    IF i \in aliased THEN [frames[i] EXCEPT !.d = Some(g)]
                    ELSE frames[i]]
    /\ lastFrameData' = IF LastFramePlace \in aliased THEN Some(g)
                        ELSE lastFrameData
    /\ UNCHANGED <<isEncoding, framesSinceKeyframe, keyframeInterval, inputs,
                   blob, ignoredCall, aliased, decVars, procVars>>

\* Container with the keyframe counter in the place of frames.length.
ContainerCountsSinceKeyframe ==
    [kind |-> "object",
     meta |-> Some([version |-> 4, frameCount |-> framesSinceKeyframe,
                    duration |-> Null]),
     framesKind |-> "array",
     frames |-> [i \in 1..Len(frames) |-> JSONCopyRecord(frames[i])]]

\* The document stopAndSave serializes; the date member is left out.
Container ==
    [kind |-> "object",
     meta |-> Some([version |-> 4, frameCount |-> Len(frames),
                    duration |-> Null]),
     framesKind |-> "array",
     frames |-> [i \in 1..Len(frames) |-> JSONCopyRecord(frames[i])]]

\* JSON.stringify(data): a text without leading white space that parses
\* back to the document.
JSONStringify(doc) == [ws |-> 0, body |-> "json", json |-> Some(doc)]

\* A catch clause that returns nothing.
CatchReturnsNothing(jsonBlob) == [ws |-> 0, body |-> "undefined", json |-> Null]

\* catch (e) { console.warn(...); return blob; }
CatchReturnsBlob(jsonBlob) == jsonBlob

\* compressed: whether CompressionStream succeeded; the catch returns the
\* uncompressed blob.  The text member is what the returned blob holds,
\* uncompressed.  The blob's inputs member is history: the frames the
\* session was given.
StopAndSave(compressed) ==
    /\ isEncoding' = FALSE
    /\ blob' = Some([gz |-> compressed,
                      text |-> IF compressed THEN JSONStringify(Container)
                               ELSE CatchReturnsBlob(JSONStringify(Container)),
                      inputs |-> inputs])
    /\ UNCHANGED <<frames, lastFrameData, framesSinceKeyframe,
                   keyframeInterval, inputs, ignoredCall, callerFrame,
                   aliased, decVars, procVars>>

(***************************************************************************)
(* VideoEncoder with the per-character delta (td).  start and the keyframe *)
(* rule are those above.                                                   *)
(***************************************************************************)
\* for (i = 0; i < currentColors.length; i++)
\*     if (currentColors[i] !== lastColors[i]) ...
\* with no test of either array: currentColors.length on a frame without
\* colours, or lastColors[0] on a last frame without them, is a TypeError.
ColorDiffThrows(frameData, last) ==
    \/ IsNull(frameData.colors)
    \/ IsNull(last.colors) /\ Len(Val(frameData.colors)) > 0

\* Text Delta: the characters of frameData.text, row separators included,
\* against those of lastFrameData.text; i is a position of the text.
TextDiffTd(frameData, last) == DiffFrom(frameData.text, last.text, 1)

DeltaRecordTd(frameData, time) ==
    LET last == Val(lastFrameData)
        colorDiff == IF IsNull(last.colors) THEN <<>>
                     ELSE DiffFrom(Val(frameData.colors), Val(last.colors), 1)
        textDiff == TextDiffTd(frameData, last)
    IN  [t |-> time, type |-> "d", d |-> Null,
         cd |-> IF Len(colorDiff) > 0 THEN Some(colorDiff) ELSE Null,
         td |-> IF Len(textDiff) > 0 THEN Some(textDiff) ELSE Null,
         id |-> Null]

\* addFrame of the td encoder, on an object the encoder has not seen.  The
\* TypeError of the colour loop leaves the encoder as it was.
AddFrameTd(frameData, time) ==
    /\ Len(frames) < MaxFrames
    /\ IF NotEncoding
       THEN /\ ignoredCall' = TRUE
            /\ UNCHANGED <<frames, lastFrameData, framesSinceKeyframe, inputs,
                           callerFrame, aliased>>
       ELSE IF ~IsKeyframe(frameData)
               /\ ColorDiffThrows(frameData, Val(lastFrameData))
       THEN UNCHANGED <<frames, lastFrameData, framesSinceKeyframe, inputs,
                        callerFrame, aliased, ignoredCall>>
       ELSE /\ ignoredCall' = ignoredCall
            /\ IF IsKeyframe(frameData)
               THEN /\ frames' = Append(frames, KeyframeRecord(frameData, time))
                    /\ framesSinceKeyframe' = 0
               ELSE /\ frames' = Append(frames, DeltaRecordTd(frameData, time))
                    /\ framesSinceKeyframe' = framesSinceKeyframe + 1
            /\ lastFrameData' = Some(LastFrameCopy(frameData).frame)
            /\ inputs' = Append(inputs, frameData)
            /\ callerFrame' = Some(frameData)
            /\ aliased' = IF IsKeyframe(frameData) THEN {Len(frames) + 1}
                          ELSE {}
    /\ blob' = Null
    /\ UNCHANGED <<isEncoding, keyframeInterval, decVars, procVars>>

\* The document the td encoder's stopAndSave serializes.
ContainerTd ==
    [kind |-> "object",
     meta |-> Some([version |-> 2, frameCount |-> Len(frames),
                    duration |-> Null]),
     framesKind |-> "array",
     frames |-> [i \in 1..Len(frames) |-> JSONCopyRecord(frames[i])]]

StopAndSaveTd(compressed) ==
    /\ isEncoding' = FALSE
    /\ blob' = Some([gz |-> compressed,
                      text |-> IF compressed THEN JSONStringify(ContainerTd)
                               ELSE CatchReturnsBlob(JSONStringify(ContainerTd)),
                      inputs |-> inputs])
    /\ UNCHANGED <<frames, lastFrameData, framesSinceKeyframe,
                   keyframeInterval, inputs, ignoredCall, callerFrame,
                   aliased, decVars, procVars>>

(***************************************************************************)
(* VideoDecoder                                                            *)
(***************************************************************************)
DefaultCharset == <<" ", ".", ":", "-", "=", "+", "*", "#", "%", "@">>
DurationPad == 100

\* text.trim().startsWith('ASCV')
Trim(text) == [text EXCEPT !.ws = 0]
StartsWithASCV(text) == text.ws = 0 /\ text.body = "ASCV"

\* JSON.parse(text): the parsed value, or Null for a SyntaxError.  Leading
\* white space is allowed.
JSONParse(text) == IF text.body = "json" THEN text.json ELSE Null

\* InvalidSchema without the Array.isArray test.
InvalidSchemaOnlyMissing(doc) == doc.framesKind = "missing"

\* !this.data.frames || !Array.isArray(this.data.frames)
InvalidSchema(doc) == doc.framesKind # "array"

\* The outcome of load on a text: what this.data becomes and how load ends.
\* this.data is assigned before the schema is looked at.
LoadOutcome(text) ==
    IF StartsWithASCV(Trim(text))
    THEN [result |-> "Legacy", assigned |-> FALSE, value |-> Null]
    ELSE IF IsNull(JSONParse(text))
    THEN [result |-> "InvalidJSON", assigned |-> FALSE, value |-> Null]
    ELSE LET doc == Val(JSONParse(text))
         IN  IF doc.kind = "null"
             THEN [result |-> "TypeError", assigned |-> TRUE, value |-> Null]
             ELSE IF InvalidSchema(doc)
             THEN [result |-> "InvalidSchema", assigned |-> TRUE,
                   value |-> Some(doc)]
             ELSE [result |-> "ok", assigned |-> TRUE, value |-> Some(doc)]

\* source: the frames the document was encoded from (history), empty for a
\* document that did not come from the encoder.
Load(text, source) ==
    LET out == LoadOutcome(text)
    IN  /\ loadResult' = out.result
        /\ loadedText' = Some(text)
        /\ data' = IF out.assigned THEN out.value ELSE data
        /\ dataInputs' = IF out.assigned THEN source ELSE dataInputs
        /\ IF out.result = "ok"
           THEN /\ reconstructedFrame' = Null
                /\ lastProcessedIndex' = -1
           ELSE UNCHANGED <<reconstructedFrame, lastProcessedIndex>>
        /\ rendered' = FALSE
        /\ thrown' = Null
        /\ lastTick' = Null
        /\ UNCHANGED <<encVars, procVars, isPlaying, startTime, now, pending,
                       delivered, paused, finishCalls, exported>>

\* a[idx] = val on an array; a write past the end leaves holes.
JsSet(a, idx, val) ==
    IF idx < Len(a) THEN [a EXCEPT ![idx + 1] = val]
    ELSE a \o [k \in 1..(idx - Len(a)) |-> "undefined"] \o <<val>>

\* textChars[textIdx] = ch, then join(''): holes join as nothing.
JsSetText(text, textIdx, ch) ==
    IF textIdx < Len(text) THEN [text EXCEPT ![textIdx + 1] = ch]
    ELSE text \o <<ch>>

\* for (j = 0; j < cd.length; j += 2) colors[cd[j]] = cd[j + 1];
RECURSIVE PatchArray(_, _, _)
PatchArray(a, diff, j) ==
    IF j > Len(diff) THEN a
    ELSE PatchArray(JsSet(a, diff[j], diff[j + 1]), diff, j + 2)

\* Patch Indices: row = floor(dataIdx / width), col = dataIdx % width,
\* textIdx = row * (width + 1) + col, textChars[textIdx] = charset[idx] || ' '
RECURSIVE PatchText(_, _, _, _, _)
PatchText(text, charset, width, diff, j) ==
    IF j > Len(diff) THEN text
    ELSE LET dataIdx == diff[j]
             paletteIdx == diff[j + 1]
             row == dataIdx \div width
             col == dataIdx % width
             textIdx == row * (width + 1) + col
             ch == IF paletteIdx < Len(charset)
                   THEN charset[paletteIdx + 1] ELSE " "
         IN  PatchText(JsSetText(text, textIdx, ch), charset, width, diff, j + 2)

\* Patch Text (Legacy): td holds pairs of an index and a character.  The
\* index is taken as a data index: row = floor(dataIdx / width),
\* col = dataIdx % width, textChars[row * (width + 1) + col] = char.
RECURSIVE PatchTextLegacy(_, _, _, _)
PatchTextLegacy(text, width, diff, j) ==
    IF j > Len(diff) THEN text
    ELSE LET dataIdx == diff[j]
             char == diff[j + 1]
             row == dataIdx \div width
             col == dataIdx % width
             textIdx == row * (width + 1) + col
         IN  PatchTextLegacy(JsSetText(text, textIdx, char), width, diff, j + 2)

\* The reconstruction taken from a keyframe as the record's own object.
KeyframeShared(d) == [frame |-> d, own |-> FALSE]

\* this.reconstructedFrame = JSON.parse(JSON.stringify(frame.d)): an object
\* of the decoder's own.
KeyframeCopy(d) == [frame |-> JSONCopyFrame(d), own |-> TRUE]

\* Patch Colors: if (frame.cd) for (j ...) colors[cd[j]] = cd[j + 1];
PatchColors(r, cd) ==
    IF IsNull(cd) \/ Len(Val(cd)) = 0 THEN r
    ELSE [r EXCEPT !.colors = Some(PatchArray(Val(r.colors), Val(cd), 1))]

\* Patch Text (Legacy): if (frame.td) { ... }
PatchLegacy(r, td) ==
    IF IsNull(td) THEN r
    ELSE [r EXCEPT !.text = PatchTextLegacy(r.text, r.width, Val(td), 1)]

\* Patch Indices: if (frame.id) { ... } with
\* charset = this.reconstructedFrame.charset || DEFAULT_CHARSET
PatchIndices(r, id) ==
    IF IsNull(id) THEN r
    ELSE [r EXCEPT
            !.text = PatchText(r.text,
                               IF Len(r.charset) = 0 THEN DefaultCharset
                               ELSE r.charset,
                               r.width, Val(id), 1),
            !.charIndices = PatchArray(r.charIndices, Val(id), 1)]

\* One record applied to the reconstruction rf (optional frame):
\* [rf, err], err naming the exception that stopped it.
ApplyRecord(rf, frame) ==
    IF frame.type = "f" \/ frame.type = ""
    THEN IF IsNull(frame.d)
         THEN [rf |-> rf, err |-> Some("SyntaxError")]
         ELSE [rf |-> Some(KeyframeCopy(Val(frame.d)).frame), err |-> Null]
    ELSE IF frame.type = "d" /\ ~IsNull(rf)
    THEN IF ~IsNull(frame.cd) /\ Len(Val(frame.cd)) > 0
            /\ IsNull(Val(rf).colors)
         THEN [rf |-> rf, err |-> Some("TypeError")]
         ELSE [rf |-> Some(PatchIndices(
                             PatchLegacy(PatchColors(Val(rf), frame.cd),
                                         frame.td),
                             frame.id)),
               err |-> Null]
    ELSE [rf |-> rf, err |-> Null]

\* The model index of the keyframe the reconstruction was last taken from
\* when the records up to source index i have been applied; 0 if none.
RECURSIVE LatestKeyframe(_, _)
LatestKeyframe(frs, i) ==
    IF i < 0 THEN 0
    ELSE IF (frs[i + 1].type = "f" \/ frs[i + 1].type = "")
            /\ ~IsNull(frs[i + 1].d)
    THEN i + 1
    ELSE LatestKeyframe(frs, i - 1)

\* The records after the record at source index i was applied and left the
\* reconstruction rf.  The patches write into this.reconstructedFrame; where
\* that object is a keyframe's stored frame, the record shows them.
WriteThrough(frs, i, rf) ==
    LET k == LatestKeyframe(frs, i)
    IN  IF k = 0 \/ IsNull(rf) THEN frs
        ELSE IF KeyframeCopy(Val(frs[k].d)).own THEN frs
        ELSE [frs EXCEPT ![k].d = rf]

\* A catch-up that applies the target record alone.
ApplyOnlyTarget(frs, rf, lpi, i, frameIndex) ==
    IF i > frameIndex THEN [rf |-> rf, lpi |-> lpi, err |-> Null, frs |-> frs]
    ELSE IF frameIndex >= Len(frs)
    THEN [rf |-> rf, lpi |-> lpi, err |-> Some("TypeError"), frs |-> frs]
    ELSE LET step == ApplyRecord(rf, frs[frameIndex + 1])
         IN  [rf |-> step.rf, lpi |-> IF IsNull(step.err) THEN frameIndex ELSE lpi,
              err |-> step.err, frs |-> frs]

\* for (i = lastProcessedIndex + 1; i <= frameIndex; i++) { ...;
\* lastProcessedIndex = i; }   i and frameIndex are source indices.  frs in
\* the result is this.data.frames after the run.
RECURSIVE ApplyFrom(_, _, _, _, _)
ApplyFrom(frs, rf, lpi, i, frameIndex) ==
    IF i > frameIndex THEN [rf |-> rf, lpi |-> lpi, err |-> Null, frs |-> frs]
    ELSE IF i >= Len(frs)
    THEN [rf |-> rf, lpi |-> lpi, err |-> Some("TypeError"), frs |-> frs]
    ELSE LET step == ApplyRecord(rf, frs[i + 1])
         IN  IF ~IsNull(step.err)
             THEN [rf |-> step.rf, lpi |-> lpi, err |-> step.err, frs |-> frs]
             ELSE ApplyFrom(WriteThrough(frs, i, step.rf), step.rf, i, i + 1,
                            frameIndex)

\* let frameIndex = 0; for (i...) { if (frames[i].t > currentTime) break;
\* frameIndex = i; }
RECURSIVE FindFrameIndex(_, _, _, _)
FindFrameIndex(frs, currentTime, i, frameIndex) ==
    IF i >= Len(frs) THEN frameIndex
    ELSE IF frs[i + 1].t > currentTime THEN frameIndex
    ELSE FindFrameIndex(frs, currentTime, i + 1, i)

\* this.data.meta?.duration || frames[frames.length - 1].t + 100
HasDuration(doc) ==
    /\ ~IsNull(doc.meta)
    /\ ~IsNull(Val(doc.meta).duration)
    /\ Val(Val(doc.meta).duration) # 0
Duration(doc) ==
    IF HasDuration(doc) THEN Val(Val(doc.meta).duration)
    ELSE doc.frames[Len(doc.frames)].t + DurationPad

\* loop without the isPlaying test.
LoopNeverStopped(playing) == FALSE

\* if (!this.isPlaying) return;
LoopStopped(playing) == ~playing

\* loop without the reset on a lower target index.
NeedsResetNever(frameIndex, lpi) == FALSE

\* if (frameIndex < this.lastProcessedIndex) this.resetState();
NeedsReset(frameIndex, lpi) == frameIndex < lpi

\* One run of loop() with the decoder's fields as given: the new fields,
\* whether onFrame was called and with what, whether the loop queued itself
\* again, and the exception that ended it, if any.
LoopRun(playing, d, start, rf, lpi, clock) ==
    LET quiet == [rf |-> rf, lpi |-> lpi, rendered |-> FALSE,
                  delivered |-> Null, queued |-> FALSE, err |-> Null,
                  tick |-> Null, doc |-> d]
    IN  IF LoopStopped(playing) THEN quiet
        ELSE IF IsNull(d) \/ Val(d).framesKind # "array"
        THEN [quiet EXCEPT !.err = Some("TypeError")]
        ELSE IF ~HasDuration(Val(d)) /\ Len(Val(d).frames) = 0
        THEN [quiet EXCEPT !.err = Some("TypeError")]
        ELSE LET frs == Val(d).frames
                 currentTime == (clock - start) % Duration(Val(d))
                 frameIndex == FindFrameIndex(frs, currentTime, 0, 0)
                 reset == NeedsReset(frameIndex, lpi)
                 rf0 == IF reset THEN Null ELSE rf
                 lpi0 == IF reset THEN -1 ELSE lpi
                 res == ApplyFrom(frs, rf0, lpi0, lpi0 + 1, frameIndex)
                 tick == Some([currentTime |-> currentTime,
                               frameIndex |-> frameIndex, reset |-> reset,
                               from |-> lpi])
                 doc == Some([Val(d) EXCEPT !.frames = res.frs])
             IN  IF ~IsNull(res.err)
                 THEN [rf |-> res.rf, lpi |-> res.lpi, rendered |-> FALSE,
                       delivered |-> Null, queued |-> FALSE, err |-> res.err,
                       tick |-> tick, doc |-> doc]
                 ELSE [rf |-> res.rf, lpi |-> res.lpi,
                       rendered |-> ~IsNull(res.rf), delivered |-> res.rf,
                       queued |-> TRUE, err |-> Null, tick |-> tick,
                       doc |-> doc]

\* play that keeps the start time of the play before.
ClockResume(clock, start) == start

\* this.startTime = Date.now()
ClockStart(clock, start) == clock

Play ==
    /\ pending < MaxPending
    /\ IF IsNull(data)
       THEN /\ rendered' = FALSE
            /\ thrown' = Null
            /\ lastTick' = Null
            /\ UNCHANGED <<data, isPlaying, startTime, reconstructedFrame,
                           lastProcessedIndex, pending, delivered, paused>>
       ELSE /\ isPlaying' = TRUE
            /\ startTime' = ClockStart(now, startTime)
            /\ paused' = FALSE
            /\ IF Val(data).framesKind # "array"
               THEN /\ reconstructedFrame' = Null
                    /\ lastProcessedIndex' = -1
                    /\ rendered' = FALSE
                    /\ thrown' = Some("TypeError")
                    /\ lastTick' = Null
                    /\ UNCHANGED <<data, pending, delivered>>
               ELSE IF Len(Val(data).frames) = 1
               THEN /\ reconstructedFrame' = Null
                    /\ lastProcessedIndex' = -1
                    /\ rendered' = TRUE
                    /\ delivered' = Val(data).frames[1].d
                    /\ thrown' = Null
                    /\ lastTick' = Null
                    /\ UNCHANGED <<data, pending>>
               ELSE LET run == LoopRun(TRUE, data, ClockStart(now, startTime),
                                       Null, -1, now)
                    IN  /\ reconstructedFrame' = run.rf
                        /\ lastProcessedIndex' = run.lpi
                        /\ rendered' = run.rendered
                        /\ delivered' = IF run.rendered THEN run.delivered
                                        ELSE delivered
                        /\ thrown' = run.err
                        /\ lastTick' = run.tick
                        /\ data' = run.doc
                        /\ pending' = IF run.queued THEN pending + 1 ELSE pending
    /\ UNCHANGED <<encVars, procVars, dataInputs, now, loadResult,
                   loadedText, finishCalls, exported>>

Pause ==
    /\ isPlaying' = FALSE
    /\ paused' = TRUE
    /\ rendered' = FALSE
    /\ thrown' = Null
    /\ lastTick' = Null
    /\ UNCHANGED <<encVars, procVars, data, dataInputs, startTime,
                   reconstructedFrame, lastProcessedIndex, now, pending,
                   delivered, loadResult, loadedText, finishCalls, exported>>

\* An animation frame: dt later, one queued loop callback runs.
Tick(dt) ==
    /\ pending > 0
    /\ now + dt <= MaxNow
    /\ now' = now + dt
    /\ LET run == LoopRun(isPlaying, data, startTime, reconstructedFrame,
                          lastProcessedIndex, now + dt)
       IN  /\ reconstructedFrame' = run.rf
           /\ lastProcessedIndex' = run.lpi
           /\ rendered' = run.rendered
           /\ delivered' = IF run.rendered THEN run.delivered ELSE delivered
           /\ thrown' = run.err
           /\ lastTick' = run.tick
           /\ data' = run.doc
           /\ pending' = IF run.queued THEN pending ELSE pending - 1
    /\ UNCHANGED <<encVars, procVars, dataInputs, isPlaying, startTime,
                   loadResult, loadedText, paused, finishCalls, exported>>

(***************************************************************************)
(* AsciiProcessor                                                          *)
(*                                                                         *)
(* The raster process() reads is modelled after the tone adjustments: per  *)
(* pixel the adjusted channels r, g, b (adjustedData) and the clamped      *)
(* luminance lum (adjLuminanceMap), each in 0..255.                        *)
(***************************************************************************)
Channel == 0..255

\* ' ▀▄█': nothing, upper half (U+2580), lower half (U+2584), full (U+2588)
BlockCharset == <<" ", "^", "_", "X">>

\* this.options as the constructor sets it (the members process() reads
\* after the tone adjustments).
DefaultOptions ==
    [mode |-> "grayscale", colorMode |-> "color", colorDepth |-> 8,
     charset |-> DefaultCharset, binaryThreshold |-> 128,
     binaryLight |-> "1", binaryDark |-> "0", autoLevel |-> FALSE]

BayerMatrix4x4 ==
    << <<0, 8, 2, 10>>, <<12, 4, 14, 6>>, <<3, 11, 1, 9>>, <<15, 7, 13, 5>> >>

\* getBayerValue with the matrix read by column.
getBayerValueTransposed(x, y) == BayerMatrix4x4[(x % 4) + 1][(y % 4) + 1]

getBayerValue(x, y) == BayerMatrix4x4[(y % 4) + 1][(x % 4) + 1]

\* Bitwise operators on non-negative integers below 2^31.
RECURSIVE BitOr(_, _)
BitOr(a, b) ==
    IF a = 0 THEN b
    ELSE IF b = 0 THEN a
    ELSE (IF a % 2 = 1 \/ b % 2 = 1 THEN 1 ELSE 0)
         + 2 * BitOr(a \div 2, b \div 2)

RECURSIVE BitAnd(_, _)
BitAnd(a, b) ==
    IF a = 0 \/ b = 0 THEN 0
    ELSE (IF a % 2 = 1 /\ b % 2 = 1 THEN 1 ELSE 0)
         + 2 * BitAnd(a \div 2, b \div 2)

Shl(a, n) == a * (2 ^ n)
Shr(a, n) == a \div (2 ^ n)

\* Pack with the 0xRRGGBB layout at every depth.
PackAlways24(depth, r, g, b) == BitOr(BitOr(Shl(r, 16), Shl(g, 8)), b)

\* Standard geometry: colorPacked from the cell's pixel.
Pack(depth, r, g, b) ==
    IF depth = 4
    THEN BitOr(BitOr(Shl(Shr(r, 7), 3), Shl(Shr(g, 6), 1)), Shr(b, 7))
    ELSE IF depth = 8
    THEN BitOr(BitOr(Shl(Shr(r, 5), 5), Shl(Shr(g, 5), 2)), Shr(b, 6))
    ELSE IF depth = 12
    THEN BitOr(BitOr(Shl(Shr(r, 4), 8), Shl(Shr(g, 4), 4)), Shr(b, 4))
    ELSE BitOr(BitOr(Shl(r, 16), Shl(g, 8)), b)

\* Block geometry: colorPacked from the top pixel of the cell.
PackBlock(depth, rTAdj, gTAdj, bTAdj) ==
    IF depth = 4
    THEN BitOr(BitOr(Shl(Shr(rTAdj, 7), 3), Shl(Shr(gTAdj, 6), 1)),
               Shr(bTAdj, 7))
    ELSE IF depth = 8
    THEN BitOr(BitOr(Shl(Shr(rTAdj, 5), 5), Shl(Shr(gTAdj, 5), 2)),
               Shr(bTAdj, 6))
    ELSE IF depth = 12
    THEN BitOr(BitOr(Shl(Shr(rTAdj, 4), 8), Shl(Shr(gTAdj, 4), 4)),
               Shr(bTAdj, 4))
    ELSE BitOr(BitOr(Shl(rTAdj, 16), Shl(gTAdj, 8)), bTAdj)

\* Unpack that returns the channel fields without scaling them to 0..255.
UnpackUnscaled(depth, col) ==
    IF depth = 4
    THEN <<BitAnd(Shr(col, 3), 1), BitAnd(Shr(col, 1), 3), BitAnd(col, 1)>>
    ELSE IF depth = 8
    THEN <<BitAnd(Shr(col, 5), 7), BitAnd(Shr(col, 2), 7), BitAnd(col, 3)>>
    ELSE IF depth = 12
    THEN <<BitAnd(Shr(col, 8), 15), BitAnd(Shr(col, 4), 15), BitAnd(col, 15)>>
    ELSE <<BitAnd(Shr(col, 16), 255), BitAnd(Shr(col, 8), 255),
           BitAnd(col, 255)>>

\* drawFrame: the r, g, b of a packed colour.
Unpack(depth, col) ==
    IF depth = 4
    THEN <<BitAnd(Shr(col, 3), 1) * 255, BitAnd(Shr(col, 1), 3) * 85,
           BitAnd(col, 1) * 255>>
    ELSE IF depth = 8
    THEN <<BitAnd(Shr(col, 5), 7) * 36, BitAnd(Shr(col, 2), 7) * 36,
           BitAnd(col, 3) * 85>>
    ELSE IF depth = 12
    THEN <<BitAnd(Shr(col, 8), 15) * 17, BitAnd(Shr(col, 4), 15) * 17,
           BitAnd(col, 15) * 17>>
    ELSE <<BitAnd(Shr(col, 16), 255), BitAnd(Shr(col, 8), 255),
           BitAnd(col, 255)>>

Min2(a, b) == IF a < b THEN a ELSE b
Max2(a, b) == IF a > b THEN a ELSE b

\* The palette index as computed, without the clamp.
ClampNone(idx, charsetLen) == idx

\* idx = Math.max(0, Math.min(idx, charsetLen - 1))
Clamp(idx, charsetLen) == Max2(0, Min2(idx, charsetLen - 1))

\* The grayscale index rounded to the nearest instead of floored.
GrayscaleIdxRounded(brightness, charsetLen) ==
    Clamp((brightness * charsetLen + 128) \div 256, charsetLen)

\* Math.floor((brightness / 256) * charsetLen), clamped
GrayscaleIdx(brightness, charsetLen) ==
    Clamp((brightness * charsetLen) \div 256, charsetLen)

\* t = (bayer + 0.5) / 16;
\* Math.floor(((brightness / 256) + (t - 0.5) / charsetLen) * charsetLen),
\* clamped.  The argument of floor is
\* (brightness * charsetLen + 16 * bayer - 120) / 256.
DitherIdx(brightness, bayer, charsetLen) ==
    Clamp((brightness * charsetLen + 16 * bayer - 120) \div 256, charsetLen)

\* dithered = brightness + ((bayer / 16) - 0.5) * 32;
\* idx = dithered > binaryThreshold ? 1 : 0
BinaryIdx(brightness, bayer, binaryThreshold) ==
    IF brightness + 2 * bayer - 16 > binaryThreshold THEN 1 ELSE 0

\* BlockIdx with the two pixels of the cell exchanged.
BlockIdxSwapped(brT, brB) ==
    (IF 2 * brB > 255 THEN 1 ELSE 0) + Shl(IF 2 * brT > 255 THEN 1 ELSE 0, 1)

\* tOn = brT > 127.5, bOn = brB > 127.5, idx = tOn + (bOn << 1)
BlockIdx(brT, brB) ==
    (IF 2 * brT > 255 THEN 1 ELSE 0) + Shl(IF 2 * brB > 255 THEN 1 ELSE 0, 1)

\* The pixel of raster im at column x, row y.
PixelAt(im, x, y) == im.px[y * im.w + x + 1]

\* cdf[i]: the pixels of the raster whose luminance is at most i.
Cdf(im, i) == Cardinality({k \in 1..Len(im.px) : im.px[k].lum <= i})

\* cdfMin: cdf at the lowest luminance the raster has.
CdfMin(im) ==
    LET lowest == CHOOSE l \in Channel :
                      /\ \E k \in 1..Len(im.px) : im.px[k].lum = l
                      /\ \A k \in 1..Len(im.px) : im.px[k].lum >= l
    IN  Cdf(im, lowest)

\* cdfRange = totalPixels - cdfMin || 1
CdfRange(im) ==
    IF Len(im.px) - CdfMin(im) = 0 THEN 1 ELSE Len(im.px) - CdfMin(im)

\* normalizedCdf[i] = ((cdf[i] - cdfMin) / cdfRange) * 255.  On a raster of
\* at most two luminances, as the model draws them, the value at a
\* luminance the raster has is 0 or 255 and the division is exact.
NormalizedCdf(im, i) == ((Cdf(im, i) - CdfMin(im)) * 255) \div CdfRange(im)

\* if (autoLevel) brightness = normalizedCdf[Math.floor(brightness)]
Level(autoLevel, im, lum) ==
    IF autoLevel THEN NormalizedCdf(im, lum) ELSE lum

\* One pass of the loop body: idx and colorPacked of the cell at (x, y).
\* Binary mode does not read autoLevel.
Cell(opts, im, x, y) ==
    LET top == [PixelAt(im, x, y) EXCEPT
                  !.lum = IF opts.mode = "binary" THEN @
                          ELSE Level(opts.autoLevel, im, @)]
        bottom == [PixelAt(im, x, Min2(y + 1, im.h - 1)) EXCEPT
                     !.lum = Level(opts.autoLevel, im, @)]
        bayer == getBayerValue(x, y)
        charsetLen == Len(opts.charset)
    IN  IF opts.mode = "block"
        THEN [idx |-> BlockIdx(top.lum, bottom.lum),
              color |-> IF opts.colorMode = "color"
                        THEN PackBlock(opts.colorDepth, top.r, top.g, top.b)
                        ELSE -1]
        ELSE [idx |-> IF opts.mode = "binary"
                      THEN BinaryIdx(top.lum, bayer, opts.binaryThreshold)
                      ELSE IF opts.mode = "dither"
                      THEN DitherIdx(top.lum, bayer, charsetLen)
                      ELSE GrayscaleIdx(top.lum, charsetLen),
              color |-> IF opts.colorMode = "color"
                        THEN Pack(opts.colorDepth, top.r, top.g, top.b)
                        ELSE -1]

\* outputHeight = (mode === 'block') ? Math.ceil(processHeight / 2)
\*                                   : processHeight
OutputHeight(mode, processHeight) ==
    IF mode = "block" THEN (processHeight + 1) \div 2 ELSE processHeight

YStep(mode) == IF mode = "block" THEN 2 ELSE 1

\* The cells in the order the loops visit them:
\* for (y = 0; y < processHeight; y += yStep) for (x = 0; x < processWidth; x++)
Cells(opts, im) ==
    LET yStep == YStep(opts.mode)
        rows == (im.h + yStep - 1) \div yStep
    IN  [n \in 1..(rows * im.w) |->
            Cell(opts, im, (n - 1) % im.w, ((n - 1) \div im.w) * yStep)]

FinalCharset(opts) ==
    IF opts.mode = "binary" THEN <<opts.binaryDark, opts.binaryLight>>
    ELSE IF opts.mode = "block" THEN BlockCharset
    ELSE opts.charset

\* this.currentFrameData as process() assembles it.  colors is an
\* Int32Array(outputWidth * outputHeight), zero-filled, written at
\* charIndex++ for every cell; charIndices and text grow by one per cell.
AssembleFrame(opts, im) ==
    LET cells == Cells(opts, im)
        outputWidth == im.w
        outputHeight == OutputHeight(opts.mode, im.h)
        charIndices == [n \in 1..Len(cells) |-> cells[n].idx]
        finalCharset == FinalCharset(opts)
    IN  [width |-> outputWidth, height |-> outputHeight,
         charIndices |-> charIndices,
         colors |-> IF opts.colorMode = "color"
                    THEN Some([k \in 1..(outputWidth * outputHeight) |->
                                 IF k <= Len(cells) THEN cells[k].color ELSE 0])
                    ELSE Null,
         charset |-> finalCharset,
         text |-> TextOf(outputWidth, Len(cells) \div outputWidth,
                         finalCharset, charIndices),
         mode |-> opts.mode, colorDepth |-> opts.colorDepth,
         colorMode |-> opts.colorMode]

\* frameData.text.replace(/\n/g, '').length
TextLen(text) == Cardinality({k \in 1..Len(text) : text[k] # "\n"})

\* drawFrame: the fill style of the cell with packed colour col.
FillStyle(colorMode, colorDepth, col) ==
    IF colorMode = "rainbow" THEN <<"hsl">>
    ELSE IF col = -1 THEN <<"white">>
    ELSE Unpack(colorDepth, col)

\* drawFrame(ctx, frameData): the frame as it leaves it, a missing colors
\* array filled in with -1 on the caller's object, and the fill style of
\* every cell in text order.
DrawFrame(frameData) ==
    LET textLen == TextLen(frameData.text)
        colors == IF IsNull(frameData.colors)
                  THEN [k \in 1..textLen |-> -1]
                  ELSE Val(frameData.colors)
        colorMode == frameData.colorMode
        depth == frameData.colorDepth
    IN  [frame |-> [frameData EXCEPT !.colors = Some(colors)],
         painted |-> [k \in 1..textLen |->
                         FillStyle(colorMode, depth,
                                   IF k <= Len(colors) THEN colors[k] ELSE 0)]]

\* process() on raster im: assemble, then render if there is a context.
ProcessWith(opts, ctx, im) ==
    LET frameData == AssembleFrame(opts, im)
    IN  IF ctx THEN DrawFrame(frameData)
        ELSE [frame |-> frameData, painted |-> <<>>]

\* The processor as constructed, with no source.
ProcInit ==
    /\ options = DefaultOptions
    /\ renderCtx = FALSE
    /\ currentFrameData = Null
    /\ sample = Null
    /\ painted = <<>>

\* The processor as constructed and then given a source, setSource(source),
\* that draws to the process canvas as one of rasters; ctxs says whether
\* setRenderCanvas(canvas) was called as well.
SourceInit(rasters, ctxs) ==
    /\ options = DefaultOptions
    /\ renderCtx \in ctxs
    /\ currentFrameData = Null
    /\ sample \in { Some(im) : im \in rasters }
    /\ painted = <<>>

\* process(): if (!this.source) return; the source draws as Val(sample).
Process ==
    /\ IF IsNull(sample)
       THEN UNCHANGED <<currentFrameData, painted>>
       ELSE LET out == ProcessWith(options, renderCtx, Val(sample))
            IN  /\ currentFrameData' = Some(out.frame)
                /\ painted' = out.painted
    /\ UNCHANGED <<encVars, decVars, options, renderCtx, sample>>

\* An option is assigned and processIfReady() called: the source, if there
\* is one, is processed again.
SetOptions(opts) ==
    /\ options' = opts
    /\ IF IsNull(sample)
       THEN UNCHANGED <<currentFrameData, painted>>
       ELSE LET out == ProcessWith(opts, renderCtx, Val(sample))
            IN  /\ currentFrameData' = Some(out.frame)
                /\ painted' = out.painted
    /\ UNCHANGED <<encVars, decVars, renderCtx, sample>>

SetMode(v) == SetOptions([options EXCEPT !.mode = v])
SetColorMode(v) == SetOptions([options EXCEPT !.colorMode = v])
SetColorDepth(v) == SetOptions([options EXCEPT !.colorDepth = v])
SetAutoLevel(v) == SetOptions([options EXCEPT !.autoLevel = v])
SetCharset(v) == SetOptions([options EXCEPT !.charset = v])

(***************************************************************************)
(* VideoApp.downloadDecodedAsGif: the records of the loaded document are   *)
(* replayed by the app itself and every frame is drawn and added to a GIF. *)
(***************************************************************************)
\* drawFrame on a frame of the codec: it returns at once on a frame with no
\* text, and fills a missing colors array with -1 on the caller's object.
DrawnFrame(frameData) ==
    IF Len(frameData.text) = 0 \/ ~IsNull(frameData.colors) THEN frameData
    ELSE [frameData EXCEPT
            !.colors = Some([k \in 1..TextLen(frameData.text) |-> -1])]

\* for (j = 0; j < td.length; j += 2) textChars[td[j]] = td[j + 1];
RECURSIVE ExportText(_, _, _)
ExportText(text, diff, j) ==
    IF j > Len(diff) THEN text
    ELSE ExportText(JsSetText(text, diff[j], diff[j + 1]), diff, j + 2)

\* if (frame.td) { ... } of the export.
ExportLegacy(r, td) ==
    IF IsNull(td) THEN r
    ELSE [r EXCEPT !.text = ExportText(r.text, Val(td), 1)]

\* One record applied to the export's reconstruction (optional frame):
\* keyframe copy, cd patch, td patch.
ExportApply(reconstructed, frame) ==
    IF frame.type = "f" \/ frame.type = ""
    THEN IF IsNull(frame.d)
         THEN [rf |-> reconstructed, err |-> Some("SyntaxError")]
         ELSE [rf |-> Some(JSONCopyFrame(Val(frame.d))), err |-> Null]
    ELSE IF frame.type = "d" /\ ~IsNull(reconstructed)
    THEN IF ~IsNull(frame.cd) /\ Len(Val(frame.cd)) > 0
            /\ IsNull(Val(reconstructed).colors)
         THEN [rf |-> reconstructed, err |-> Some("TypeError")]
         ELSE [rf |-> Some(ExportLegacy(
                             PatchColors(Val(reconstructed), frame.cd),
                             frame.td)),
               err |-> Null]
    ELSE [rf |-> reconstructed, err |-> Null]

\* nextFrame ? (nextFrame.t - frame.t) : 100;  i is the model index.
ExportDelay(frs, i) == IF i < Len(frs) THEN frs[i + 1].t - frs[i].t ELSE 100

\* for (i = 0; i < frames.length; i++) { ...; if (reconstructed) {
\* drawFrame(tempCtx, reconstructed); gif.addFrame(tempCtx, {copy, delay}) } }
\* i is the model index; gif is what was added so far.
RECURSIVE ExportFrames(_, _, _, _)
ExportFrames(frs, i, reconstructed, gif) ==
    IF i > Len(frs) THEN [gif |-> gif, err |-> Null]
    ELSE LET step == ExportApply(reconstructed, frs[i])
         IN  IF ~IsNull(step.err) THEN [gif |-> gif, err |-> step.err]
             ELSE IF IsNull(step.rf)
             THEN ExportFrames(frs, i + 1, step.rf, gif)
             ELSE LET drawn == DrawnFrame(Val(step.rf))
                  IN  ExportFrames(frs, i + 1, Some(drawn),
                                   Append(gif, [frame |-> drawn,
                                                delay |-> ExportDelay(frs, i)]))

\* hasDecodedData is set when a load resolved and cleared when one failed.
\* library: whether the GIF library has been loaded by the page.
DownloadDecodedAsGif(library) ==
    /\ IF loadResult # "ok" \/ IsNull(data) \/ ~library
       THEN /\ thrown' = Null
            /\ UNCHANGED <<isPlaying, paused, exported>>
       ELSE LET out == IF Val(data).framesKind # "array"
                       THEN [gif |-> <<>>, err |-> Null]
                       ELSE ExportFrames(Val(data).frames, 1, Null, <<>>)
            IN  /\ isPlaying' = FALSE
                /\ paused' = TRUE
                /\ exported' = Some(out.gif)
                /\ thrown' = out.err
    /\ rendered' = FALSE
    /\ lastTick' = Null
    /\ UNCHANGED <<encVars, procVars, data, dataInputs, startTime,
                   reconstructedFrame, lastProcessedIndex, now, pending,
                   delivered, loadResult, loadedText, finishCalls>>

(***************************************************************************)
(* Inputs: frames handed to addFrame, timestamps, documents handed to      *)
(* load and the time between animation frames.                             *)
(***************************************************************************)
CsA == <<" ", "#">>
CsB == <<".", "@">>

\* Frames of one recording whose options change between frames: colour on
\* and off, another charset, another grid.
PipeFrames ==
    { MakeFrame(1, 2, CsA, <<0, 1>>, Null),
      MakeFrame(1, 2, CsA, <<1, 1>>, Some(<<3, 9>>)),
      MakeFrame(1, 2, CsA, <<1, 1>>, Some(<<3, 3>>)),
      MakeFrame(1, 2, CsB, <<0, 1>>, Null),
      MakeFrame(2, 1, CsA, <<1, 0>>, Some(<<9, 3>>)) }

EncFrames == PipeFrames \cup FramesOf({<<1, 1>>}, {CsA}, {3, 9})

\* Frames at the edges of the format: a grid of one cell with a charset of
\* one symbol, with and without colours, frames of two cells without
\* colours, and a frame of one cell taken after options.charset was given
\* a second symbol.
EdgeFrames ==
    FramesOf({<<1, 1>>}, {<<"#">>}, {3, 9})
    \cup { MakeFrame(1, 2, CsA, <<0, 1>>, Null),
           MakeFrame(1, 2, CsA, <<1, 1>>, Null),
           MakeFrame(1, 1, CsA, <<1>>, Null) }

\* Frames of a caller that keeps one frame buffer and writes into it; -1 is
\* the colour drawFrame fills a frame without colours with.
BufferFrames == FramesOf({<<1, 1>>}, {CsA}, {-1, 9})

\* Frames given to the td encoder: grids of one column and two rows and of
\* two columns and one row, with colours, and one frame without colours.
TdFrames ==
    { MakeFrame(1, 2, CsA, <<0, 1>>, Some(<<3, 9>>)),
      MakeFrame(1, 2, CsA, <<1, 1>>, Some(<<3, 9>>)),
      MakeFrame(1, 2, CsA, <<0, 0>>, Some(<<3, 3>>)),
      MakeFrame(2, 1, CsA, <<0, 1>>, Some(<<3, 9>>)),
      MakeFrame(2, 1, CsA, <<1, 1>>, Some(<<3, 9>>)),
      MakeFrame(1, 2, CsA, <<1, 0>>, Null) }

\* video.currentTime * 1000 with video.currentTime = currentFrame * step
FrameStep == 100
NextTime == Len(frames) * FrameStep

\* What a caller reads from a saved blob: the bytes as they are, or, for a
\* file taken as gzip, the decompressed text.
GzipBytes == [ws |-> 0, body |-> "gzip", json |-> Null]
AsText(b) == IF b.gz THEN GzipBytes ELSE b.text
Gunzip(b) == b.text

\* Documents that did not come from this encoder.
SampleFrames ==
    << [t |-> 0, type |-> "f",
        d |-> Some(MakeFrame(1, 2, CsA, <<0, 1>>, Some(<<3, 9>>))),
        cd |-> Null, td |-> Null, id |-> Null],
       [t |-> 100, type |-> "d", d |-> Null,
        cd |-> Some(<<1, 3>>), td |-> Null, id |-> Some(<<0, 1>>)],
       [t |-> 250, type |-> "d", d |-> Null,
        cd |-> Null, td |-> Null, id |-> Some(<<1, 0>>)] >>

SampleDoc ==
    [kind |-> "object",
     meta |-> Some([version |-> 4, frameCount |-> 3, duration |-> Some(300)]),
     framesKind |-> "array", frames |-> SampleFrames]

\* A document of the earlier layout: every record a whole frame, no type
\* member, no duration.
PlainDoc ==
    [kind |-> "object",
     meta |-> Some([version |-> 2, frameCount |-> 2, duration |-> Null]),
     framesKind |-> "array",
     frames |-> << [t |-> 0, type |-> "",
                    d |-> Some(MakeFrame(2, 1, CsB, <<0, 1>>, Null)),
                    cd |-> Null, td |-> Null, id |-> Null],
                   [t |-> 100, type |-> "",
                    d |-> Some(MakeFrame(2, 1, CsB, <<1, 1>>, Null)),
                    cd |-> Null, td |-> Null, id |-> Null] >>]

\* The records of SampleDoc with the last two timestamps exchanged.
UnsortedDoc ==
    [SampleDoc EXCEPT !.frames = [i \in 1..Len(SampleFrames) |->
        [SampleFrames[i] EXCEPT !.t = <<0, 250, 100>>[i]]]]

\* A saved image: one keyframe.
SingleDoc ==
    [kind |-> "object",
     meta |-> Some([version |-> 4, frameCount |-> 1, duration |-> Null]),
     framesKind |-> "array",
     frames |-> << [t |-> 0, type |-> "f",
                    d |-> Some(MakeFrame(1, 1, CsA, <<1>>, Some(<<9>>))),
                    cd |-> Null, td |-> Null, id |-> Null] >>]

DocWithFrames(kind) ==
    [kind |-> "object",
     meta |-> Some([version |-> 4, frameCount |-> 0, duration |-> Null]),
     framesKind |-> kind, frames |-> <<>>]

JSONNull == [kind |-> "null", meta |-> Null, framesKind |-> "missing",
             frames |-> <<>>]

LegacyText == [ws |-> 1, body |-> "ASCV", json |-> Null]
GarbageText == [ws |-> 0, body |-> "garbage", json |-> Null]

SampleTexts ==
    { JSONStringify(SampleDoc), JSONStringify(PlainDoc),
      JSONStringify(UnsortedDoc), JSONStringify(SingleDoc),
      LegacyText, GarbageText, GzipBytes,
      JSONStringify(DocWithFrames("missing")),
      JSONStringify(DocWithFrames("other")),
      JSONStringify(JSONNull) }

PipeTickSteps == {140}
DecTickSteps == {40, 280}

\* Rasters that sources draw as.  A raster is its width w, its height h and
\* its pixels px in row-major order.
Pixel(r, g, b, lum) == [r |-> r, g |-> g, b |-> b, lum |-> lum]

\* One pixel with every value of one channel against all zeros and all ones
\* in the other two, and with all three channels equal.
ColorTriples ==
    UNION { { <<v, c, c>>, <<c, v, c>>, <<c, c, v>>, <<v, v, v>> } :
            <<v, c>> \in Channel \X {0, 255} }

ColorRasters ==
    { [w |-> 1, h |-> 1, px |-> <<Pixel(t[1], t[2], t[3], t[2])>>] :
      t \in ColorTriples }

\* Every luminance on a grid that covers every Bayer position.
UniformRasters ==
    { [w |-> 4, h |-> 4, px |-> [n \in 1..16 |-> Pixel(l, l, l, l)]] :
      l \in Channel }

\* Grids with odd and even numbers of rows whose rows alternate between
\* two luminances.
StripedRaster(w, h, l) ==
    [w |-> w, h |-> h,
     px |-> [n \in 1..(w * h) |->
                LET v == IF ((n - 1) \div w) % 2 = 0 THEN l ELSE 255 - l
                IN  Pixel(v, v, v, v)]]

StripedRasters ==
    { StripedRaster(d[1], d[2], l) :
      d \in {<<1, 1>>, <<2, 3>>, <<1, 2>>, <<3, 5>>}, l \in {0, 127, 128, 255} }

Modes == {"grayscale", "dither", "binary", "block"}
ColorModes == {"color", "mono", "rainbow"}
ColorDepths == {4, 8, 12, 24}
\* A charset of more symbols than there are luminances.
WideCharset == [i \in 1..257 |-> "w"]

Charsets == {<<"#">>, DefaultCharset, WideCharset}

(***************************************************************************)
(* Specifications                                                          *)
(***************************************************************************)
\* Both objects as constructed.  The constructor sets keyframeInterval to
\* 30; the field is a plain property that addFrame reads on every call, and
\* the model also runs it at the small values 1..MaxInterval, which sessions
\* of MaxFrames frames can reach.
CodecInit ==
    /\ frames = <<>>
    /\ isEncoding = FALSE
    /\ lastFrameData = Null
    /\ framesSinceKeyframe = 0
    /\ keyframeInterval \in (1..MaxInterval) \cup {DefaultKeyframeInterval}
    /\ inputs = <<>>
    /\ blob = Null
    /\ ignoredCall = FALSE
    /\ callerFrame = Null
    /\ aliased = {}
    /\ data = Null
    /\ dataInputs = <<>>
    /\ isPlaying = FALSE
    /\ startTime = 0
    /\ reconstructedFrame = Null
    /\ lastProcessedIndex = -1
    /\ now = 0
    /\ pending = 0
    /\ delivered = Null
    /\ rendered = FALSE
    /\ loadResult = "none"
    /\ loadedText = Null
    /\ thrown = Null
    /\ paused = FALSE
    /\ lastTick = Null
    /\ finishCalls = 0
    /\ exported = Null

Init == CodecInit /\ ProcInit

\* The decoder as constructed and never used.
DecoderFresh ==
    /\ IsNull(data)
    /\ loadResult = "none"
    /\ ~isPlaying
    /\ ~paused

\* The encoder alone, over any number of sessions.
NextEnc ==
    \/ Start
    \/ \E f \in EncFrames : AddFrame(f, NextTime)
    \/ \E c \in BOOLEAN : StopAndSave(c)

SpecEnc == Init /\ [][NextEnc]_vars

\* The encoder alone with a caller that keeps its frame objects: it passes
\* new ones, passes the one of the call before again and writes into it.
NextAlias ==
    \/ Start
    \/ \E f \in BufferFrames : AddFrame(f, NextTime)
    \/ AddSameFrame(NextTime)
    \/ \E g \in BufferFrames : MutateFrame(g)
    \/ \E c \in BOOLEAN : StopAndSave(c)

InitAlias == Init /\ keyframeInterval = DefaultKeyframeInterval

SpecAlias == InitAlias /\ [][NextAlias]_vars

\* The decoder alone, on documents that are given.
NextDec ==
    \/ \E text \in SampleTexts : Load(text, <<>>)
    \/ Play
    \/ Pause
    \/ \E dt \in DecTickSteps : Tick(dt)

InitDec == Init /\ keyframeInterval = DefaultKeyframeInterval

SpecDec == InitDec /\ [][NextDec]_vars

\* The colour path of the processor: every depth, both geometries.
NextColor ==
    \/ \E v \in {"grayscale", "block"} : SetMode(v)
    \/ \E v \in ColorDepths : SetColorDepth(v)
    \/ Process

InitColor ==
    /\ CodecInit
    /\ keyframeInterval = DefaultKeyframeInterval
    /\ SourceInit(ColorRasters, {TRUE})

SpecColor == InitColor /\ [][NextColor]_vars

\* The quantizer: every mode and charset on every luminance and Bayer
\* position.
NextQuant ==
    \/ \E v \in Modes : SetMode(v)
    \/ \E v \in Charsets : SetCharset(v)
    \/ Process

InitQuant ==
    /\ CodecInit
    /\ keyframeInterval = DefaultKeyframeInterval
    /\ SourceInit(UniformRasters, {FALSE})

SpecQuant == InitQuant /\ [][NextQuant]_vars

\* Auto-level: every mode on rasters of one luminance and of two.
NextLevel ==
    \/ \E v \in Modes : SetMode(v)
    \/ \E v \in BOOLEAN : SetAutoLevel(v)
    \/ Process

InitLevel ==
    /\ CodecInit
    /\ keyframeInterval = DefaultKeyframeInterval
    /\ SourceInit(UniformRasters \cup StripedRasters, {FALSE})

SpecLevel == InitLevel /\ [][NextLevel]_vars

\* The frame assembly: every mode and colour mode, with and without a
\* render canvas.
NextProc ==
    \/ \E v \in Modes : SetMode(v)
    \/ \E v \in ColorModes : SetColorMode(v)
    \/ Process

InitProc ==
    /\ CodecInit
    /\ keyframeInterval = DefaultKeyframeInterval
    /\ SourceInit(StripedRasters, BOOLEAN)

SpecProc == InitProc /\ [][NextProc]_vars

\* One recording, saved, then loaded and played.  The encoder and the
\* decoder share no state, so the recording is taken to its end before the
\* decoder is first used.
Next ==
    \/ IsNull(blob) /\ DecoderFresh /\ Start
    \/ IsNull(blob) /\ DecoderFresh /\ \E f \in PipeFrames : AddFrame(f, NextTime)
    \/ IsNull(blob) /\ DecoderFresh /\ \E c \in BOOLEAN : StopAndSave(c)
    \/ /\ ~IsNull(blob)
       /\ \E text \in {AsText(Val(blob)), Gunzip(Val(blob))} :
            Load(text, Val(blob).inputs)
    \/ Play
    \/ \E dt \in PipeTickSteps : Tick(dt)

Spec == Init /\ [][Next]_vars

\* One recording of frames at the edges of the format, saved, loaded and
\* played.
NextEdge ==
    \/ IsNull(blob) /\ DecoderFresh /\ Start
    \/ IsNull(blob) /\ DecoderFresh /\ \E f \in EdgeFrames : AddFrame(f, NextTime)
    \/ IsNull(blob) /\ DecoderFresh /\ \E c \in BOOLEAN : StopAndSave(c)
    \/ /\ ~IsNull(blob)
       /\ \E text \in {AsText(Val(blob)), Gunzip(Val(blob))} :
            Load(text, Val(blob).inputs)
    \/ Play
    \/ \E dt \in PipeTickSteps : Tick(dt)

SpecEdge == Init /\ [][NextEdge]_vars

\* One recording of the td encoder, saved, loaded and played.
NextTd ==
    \/ IsNull(blob) /\ DecoderFresh /\ Start
    \/ IsNull(blob) /\ DecoderFresh /\ \E f \in TdFrames : AddFrameTd(f, NextTime)
    \/ IsNull(blob) /\ DecoderFresh /\ \E c \in BOOLEAN : StopAndSaveTd(c)
    \/ /\ ~IsNull(blob)
       /\ \E text \in {AsText(Val(blob)), Gunzip(Val(blob))} :
            Load(text, Val(blob).inputs)
    \/ Play
    \/ \E dt \in PipeTickSteps : Tick(dt)

SpecTd == Init /\ [][NextTd]_vars

\* One recording saved and loaded, then exported as a GIF, during playback
\* or not.
NextGif ==
    \/ IsNull(blob) /\ DecoderFresh /\ Start
    \/ IsNull(blob) /\ DecoderFresh /\ \E f \in PipeFrames : AddFrame(f, NextTime)
    \/ IsNull(blob) /\ DecoderFresh /\ \E c \in BOOLEAN : StopAndSave(c)
    \/ /\ ~IsNull(blob)
       /\ \E text \in {AsText(Val(blob)), Gunzip(Val(blob))} :
            Load(text, Val(blob).inputs)
    \/ Play
    \/ \E library \in BOOLEAN : DownloadDecodedAsGif(library)

SpecGif == Init /\ [][NextGif]_vars

(***************************************************************************)
(* Properties                                                              *)
(***************************************************************************)
Dims(f) == <<f.width, f.height>>

\* The record the decoder applied last came from input dataInputs[k + 1].
SameCells(rf, f) ==
    /\ ~IsNull(rf)
    /\ Val(rf).charIndices = f.charIndices
    /\ Val(rf).colors = f.colors

\* C1.  Delta equivalence: when the decoder holds a reconstruction equal to
\* input frame A and applies the one delta record the encoder computed from
\* A to the next input frame B (same width and height), the reconstruction
\* has exactly B's charIndices and colors.
C1_DeltaEquivalence ==
    [][ LET k == lastProcessedIndex
        IN  ( /\ k >= 0
              /\ Len(dataInputs) > k + 1
              /\ ~IsNull(data)
              /\ data' = data
              /\ lastProcessedIndex' = k + 1
              /\ Val(data).frames[k + 2].type = "d"
              /\ Dims(dataInputs[k + 1]) = Dims(dataInputs[k + 2])
              /\ reconstructedFrame = Some(JSONCopyFrame(dataInputs[k + 1])) )
            => SameCells(reconstructedFrame', dataInputs[k + 2]) ]_vars

\* All frames of the session have the same dimensions.
SameDimensions ==
    \A i \in 1..Len(inputs) : Dims(inputs[i]) = Dims(inputs[1])

\* C2.  Keyframe forcing: in a session whose frames all have the same
\* dimensions, the records at positions 0 and keyframeInterval are
\* keyframes and every record at positions 1..keyframeInterval-1 is a delta.
C2_KeyframeAtInterval ==
    (SameDimensions /\ Len(frames) > keyframeInterval)
    => /\ frames[1].type = "f"
       /\ frames[keyframeInterval + 1].type = "f"
       /\ \A i \in 2..keyframeInterval : frames[i].type = "d"

\* The keyframe a record at model position i is applied on top of.
LastKey(i) ==
    CHOOSE j \in 1..i :
        /\ frames[j].type = "f"
        /\ \A k \in (j + 1)..i : frames[k].type # "f"

\* C3.  A frame whose width or height differs from the frame added before
\* it is stored as a keyframe, whatever framesSinceKeyframe is; so every
\* delta record has the dimensions of the keyframe it is applied on top of.
C3_DimensionChangeForcesKeyframe ==
    /\ Len(inputs) = Len(frames)
    /\ \A i \in 2..Len(frames) :
        /\ Dims(inputs[i]) # Dims(inputs[i - 1]) => frames[i].type = "f"
        /\ frames[i].type = "d"
             => Dims(inputs[i]) = Dims(Val(frames[LastKey(i)].d))

\* A dimension change met while the counter is far below the interval, and
\* a delta stored after it.
C3_Witness ==
    /\ keyframeInterval = DefaultKeyframeInterval
    /\ Len(frames) = 3
    /\ Dims(inputs[2]) # Dims(inputs[1])
    /\ frames[2].type = "f"
    /\ frames[3].type = "d"

\* C4.  After any sequence of start, addFrame and stopAndSave, a non-empty
\* frames list begins with a keyframe.
C4_FirstRecordIsKeyframe ==
    Len(frames) > 0 => frames[1].type = "f"

\* A stopped session of a keyframe and deltas that was saved.
C4_Witness ==
    /\ ~isEncoding
    /\ ~IsNull(blob)
    /\ Len(frames) = 3
    /\ frames[1].type = "f"
    /\ frames[2].type = "d"

\* C5.  Round trip of one frame: start, one addFrame, stopAndSave, load and
\* play deliver to the renderer a frame with the charIndices, colors, width
\* and height of the frame that was encoded.
C5_SingleFrameRoundTrip ==
    (Len(dataInputs) = 1 /\ rendered)
    => /\ ~IsNull(delivered)
       /\ Val(delivered).charIndices = dataInputs[1].charIndices
       /\ Val(delivered).colors = dataInputs[1].colors
       /\ Val(delivered).width = dataInputs[1].width
       /\ Val(delivered).height = dataInputs[1].height

\* A coloured frame, encoded alone, has just been delivered by play.
C5_Witness ==
    /\ Len(dataInputs) = 1
    /\ loadResult = "ok"
    /\ rendered
    /\ ~IsNull(delivered)
    /\ ~IsNull(dataInputs[1].colors)
    /\ isPlaying
    /\ pending = 0

\* C6.  Lossless delta compression over a session: after the decoder has
\* replayed the records up to record k, its frame has the text and the
\* colors of the k-th frame given to the encoder.
C6_LosslessReplay ==
    (Len(dataInputs) > 0 /\ lastProcessedIndex >= 0)
    => /\ ~IsNull(reconstructedFrame)
       /\ Val(reconstructedFrame).text = dataInputs[lastProcessedIndex + 1].text
       /\ Val(reconstructedFrame).colors = dataInputs[lastProcessedIndex + 1].colors

\* The reconstruction that replaying records 0..frameIndex from nothing gives.
ReplayFromStart(frs, frameIndex) == ApplyFrom(frs, Null, -1, 0, frameIndex).rf

\* C7.  A tick whose target index is below lastProcessedIndex resets the
\* reconstruction and replays from record 0: the frame delivered is the
\* replay of records 0..target; on the document with timestamps 0, 100, 250
\* and duration 300, the tick at elapsed 20 that follows the tick at elapsed
\* 280 delivers the content of the initial keyframe.
C7_WrapReplaysFromStart ==
    ( /\ ~IsNull(lastTick)
      /\ Val(lastTick).frameIndex < Val(lastTick).from
      /\ IsNull(thrown) )
    => /\ lastProcessedIndex = Val(lastTick).frameIndex
       /\ rendered
       /\ delivered = ReplayFromStart(Val(data).frames, Val(lastTick).frameIndex)
       /\ (data = Some(SampleDoc) /\ Val(lastTick).currentTime = 20)
            => delivered = SampleFrames[1].d

\* The tick at elapsed 20 after the reconstruction had reached record 2.
C7_Witness ==
    /\ data = Some(SampleDoc)
    /\ ~IsNull(lastTick)
    /\ Val(lastTick).reset
    /\ Val(lastTick).from = 2
    /\ Val(lastTick).currentTime = 20
    /\ now - startTime = 320
    /\ rendered

\* C8.  Whatever the interleaving of play, pause and ticks, at most one
\* loop callback is queued at any time.
C8_SingleLoop == pending <= 1

\* C9.  Once pause has been called, and until play is called again, no step
\* calls the renderer, and a tick takes its loop callback off the queue
\* without queueing it again.
C9_PauseStopsLoop ==
    [][ (paused /\ paused')
        => /\ ~rendered'
           /\ now' # now => pending' = pending - 1
           /\ now' = now => pending' = pending ]_vars

\* Paused during timed playback, and the queued tick has since run.
C9_Witness ==
    /\ paused
    /\ data = Some(SampleDoc)
    /\ loadResult = "ok"
    /\ ~IsNull(reconstructedFrame)
    /\ now > startTime
    /\ pending = 0

\* C10.  load ends with an error, never with success, on a text that starts
\* (after trimming) with ASCV, on a text that is not JSON, and on a JSON
\* object whose frames member is missing or is not an array.
C10_LoadRejects ==
    ~IsNull(loadedText)
    => LET text == Val(loadedText)
       IN  /\ text.body = "ASCV" => loadResult = "Legacy"
           /\ text.body \notin {"ASCV", "json"} => loadResult = "InvalidJSON"
           /\ ( /\ text.body = "json"
                /\ Val(text.json).kind = "object"
                /\ Val(text.json).framesKind \in {"missing", "other"} )
                => loadResult = "InvalidSchema"

\* load was given an object whose frames member is not an array.
C10_Witness ==
    /\ loadedText = Some(JSONStringify(DocWithFrames("other")))
    /\ loadResult = "InvalidSchema"

\* C11.  After a load that failed, decoder.data is not the document of the
\* text that was rejected, so a later play has nothing of it to work on.
C11_FailedLoadRetainsNothing ==
    (loadResult \in {"Legacy", "InvalidJSON", "InvalidSchema", "TypeError"})
    => \/ IsNull(JSONParse(Val(loadedText)))
       \/ data # JSONParse(Val(loadedText))

\* C12.  When playback has passed the end of the sequence (the loop wrapped
\* to an earlier record, or play delivered the only frame of a one-frame
\* container), the onFinish callback has been invoked.
C12_OnFinishAtEnd ==
    ( \/ /\ ~IsNull(lastTick)
          /\ IsNull(thrown)
          /\ Val(lastTick).frameIndex < Val(lastTick).from
      \/ /\ rendered
          /\ ~IsNull(data)
          /\ Len(Val(data).frames) = 1 )
    => finishCalls > 0

\* C13.  An addFrame call made while the encoder is not encoding leaves
\* frames, lastFrameData and framesSinceKeyframe as they were.
C13_AddFrameIgnoredWhenNotEncoding ==
    [][ (~isEncoding /\ ~isEncoding' /\ IsNull(blob'))
        => UNCHANGED <<frames, lastFrameData, framesSinceKeyframe>> ]_vars

\* addFrame was called after stopAndSave, and the session's records are
\* still there.
C13_Witness ==
    /\ ~isEncoding
    /\ ignoredCall
    /\ IsNull(blob)
    /\ Len(frames) = 2
    /\ ~IsNull(lastFrameData)
    /\ framesSinceKeyframe = 1

\* C14.  Every start step, whatever state it is taken in, ends with frames
\* empty, lastFrameData absent, framesSinceKeyframe 0 and isEncoding true.
C14_StartYieldsFreshSession ==
    [][ (IsNull(blob') /\ ~ignoredCall' /\ inputs' = <<>>)
        => /\ frames' = <<>>
           /\ IsNull(lastFrameData')
           /\ framesSinceKeyframe' = 0
           /\ isEncoding' ]_vars

\* A session just started.
C14_Witness ==
    /\ isEncoding
    /\ frames = <<>>
    /\ IsNull(lastFrameData)
    /\ framesSinceKeyframe = 0
    /\ ~ignoredCall

\* The document in the blob stopAndSave returned.
SavedDoc == Val(Val(blob).text.json)

\* C15, as stated.  The container's meta.frameCount is the length of its
\* frames list, and every addFrame call made since the last start has a
\* record in it.
C15_FrameCountCountsCalls ==
    (~IsNull(blob) /\ Len(inputs) > 0)
    => /\ Val(SavedDoc.meta).frameCount = Len(SavedDoc.frames)
       /\ ~ignoredCall

\* C15, amended.  The container's meta.frameCount is the length of its
\* frames list, which is the number of addFrame calls made while the
\* encoder was encoding since the last start.
C15_FrameCountIsAcceptedCalls ==
    ~IsNull(blob)
    => /\ Val(SavedDoc.meta).frameCount = Len(SavedDoc.frames)
       /\ Len(SavedDoc.frames) = Len(Val(blob).inputs)
       /\ Len(SavedDoc.frames) = Len(frames)

\* A session of three frames was saved.
C15_Witness ==
    /\ ~IsNull(blob)
    /\ Len(Val(blob).inputs) = 3
    /\ Val(SavedDoc.meta).frameCount = 3

\* C16.  stopAndSave always returns a blob and leaves the encoder not
\* encoding; when the compressor failed, the blob is the uncompressed
\* container document, which load accepts.
C16_CompressorFailureFallsBack ==
    ~IsNull(blob)
    => /\ ~isEncoding
       /\ ~Val(blob).gz
            => /\ AsText(Val(blob)) = JSONStringify(Container)
               /\ LoadOutcome(AsText(Val(blob))).result = "ok"

\* The compressor failed on a session with records.
C16_Witness ==
    /\ ~IsNull(blob)
    /\ ~Val(blob).gz
    /\ ~isEncoding
    /\ Len(frames) = 2

\* The spec's table of the colour packer: bits kept per channel and the
\* left shifts of the red and the green field, by depth.
TableBits(depth) ==
    IF depth = 4 THEN <<1, 2, 1>>
    ELSE IF depth = 8 THEN <<3, 3, 2>>
    ELSE IF depth = 12 THEN <<4, 4, 4>>
    ELSE <<8, 8, 8>>

TableShifts(depth) ==
    IF depth = 4 THEN <<3, 1>>
    ELSE IF depth = 8 THEN <<5, 2>>
    ELSE IF depth = 12 THEN <<8, 4>>
    ELSE <<16, 8>>

TableCode(depth, r, g, b) ==
    LET bits == TableBits(depth)
        sh == TableShifts(depth)
    IN  BitOr(BitOr(Shl(Shr(r, 8 - bits[1]), sh[1]),
                    Shl(Shr(g, 8 - bits[2]), sh[2])),
              Shr(b, 8 - bits[3]))

Abs(x) == IF x < 0 THEN -x ELSE x

\* The one pixel of the source raster, as <<r, g, b>>.
SourceTriple ==
    LET px == Val(sample).px[1] IN <<px.r, px.g, px.b>>

\* process() has packed and drawFrame has unpacked the colour of a cell.
ColourPainted ==
    /\ ~IsNull(currentFrameData)
    /\ Val(currentFrameData).colorMode = "color"
    /\ Len(painted) > 0

\* C17.  At every depth in {4, 8, 12, 24} and for every triple of 8-bit
\* channels, the colour that drawFrame unpacks from what process() packed
\* differs from the original, per channel, by less than 2^(8 - bits) of
\* that channel; at depth 24 it is the original.
C17_PackUnpackWithinStep ==
    ColourPainted
    => LET depth == Val(currentFrameData).colorDepth
       IN  /\ \A c \in 1..3 :
                Abs(painted[1][c] - SourceTriple[c])
                    < 2 ^ (8 - TableBits(depth)[c])
           /\ depth = 24 => painted[1] = SourceTriple

\* Green 127 at depth 4: two bits, packed as 1, unpacked as 85.
C17_Witness ==
    /\ ColourPainted
    /\ Val(currentFrameData).colorDepth = 4
    /\ SourceTriple = <<255, 127, 255>>
    /\ Val(Val(currentFrameData).colors) = <<11>>
    /\ painted = << <<255, 85, 255>> >>

\* C18.  The packed colour of a cell is the code of the spec's table for
\* the frame's depth, lies in 0 .. 2^depth - 1, and is the same in the
\* standard and in the block geometry.
C18_PackedCodeMatchesTable ==
    (~IsNull(currentFrameData) /\ Val(currentFrameData).colorMode = "color")
    => LET f == Val(currentFrameData)
           t == SourceTriple
       IN  /\ Val(f.colors)[1] = TableCode(f.colorDepth, t[1], t[2], t[3])
           /\ Val(f.colors)[1] \in 0..(2 ^ f.colorDepth - 1)
           /\ Pack(f.colorDepth, t[1], t[2], t[3])
                = PackBlock(f.colorDepth, t[1], t[2], t[3])

\* Pure red in block mode at depth 8: (7 << 5) | (0 << 2) | 0.
C18_Witness ==
    /\ ~IsNull(currentFrameData)
    /\ Val(currentFrameData).mode = "block"
    /\ Val(currentFrameData).colorDepth = 8
    /\ SourceTriple = <<255, 0, 0>>
    /\ Val(currentFrameData).colors = Some(<<224>>)

\* C19.  In the frame process() leaves in currentFrameData, charIndices
\* has width * height entries, colors has width * height entries when it
\* is present, and colors is present exactly when colorMode is 'color'.
C19_FrameArraysMatchGrid ==
    ~IsNull(currentFrameData)
    => LET f == Val(currentFrameData)
       IN  /\ Len(f.charIndices) = f.width * f.height
           /\ ~IsNull(f.colors) => Len(Val(f.colors)) = f.width * f.height
           /\ ~IsNull(f.colors) <=> f.colorMode = "color"

\* C20.  Every entry of charIndices is at least 0 and below the length of
\* the frame's charset, in every mode; with a charset of one symbol every
\* entry is 0.
C20_IndicesWithinCharset ==
    ~IsNull(currentFrameData)
    => LET f == Val(currentFrameData)
       IN  /\ \A i \in 1..Len(f.charIndices) :
                f.charIndices[i] \in 0..(Len(f.charset) - 1)
           /\ Len(f.charset) = 1
                => \A i \in 1..Len(f.charIndices) : f.charIndices[i] = 0

\* Dithering of luminance 255 over all sixteen Bayer positions with the
\* ten-symbol charset: every cell has the last index.
C20_Witness ==
    /\ ~IsNull(currentFrameData)
    /\ Val(currentFrameData).mode = "dither"
    /\ Val(currentFrameData).charset = DefaultCharset
    /\ Val(sample).w = 4
    /\ Val(sample).px[1].lum = 255
    /\ \A i \in 1..16 : Val(currentFrameData).charIndices[i] = 9

\* A frame of one cell, of a charset of one symbol, without colours.
OneCell(f) == f.width = 1 /\ f.height = 1
OneSymbol(f) == Len(f.charset) = 1
Mono(f) == IsNull(f.colors)

\* C21.  A recording whose frames all have a grid of one cell, or all have
\* a charset of one symbol, or all are without colours, is encoded, loaded
\* and played without any exception.
C21_EdgeSessionsPlay ==
    ( /\ loadResult = "ok"
      /\ Len(dataInputs) > 0
      /\ \/ \A i \in 1..Len(dataInputs) : OneCell(dataInputs[i])
         \/ \A i \in 1..Len(dataInputs) : OneSymbol(dataInputs[i])
         \/ \A i \in 1..Len(dataInputs) : Mono(dataInputs[i]) )
    => IsNull(thrown)

\* C22.  An addFrame call that is accepted appends a keyframe exactly when
\* lastFrameData is absent, or framesSinceKeyframe has reached
\* keyframeInterval, or the frame's width or height differs from
\* lastFrameData's, and a delta otherwise; the counter is 0 after a
\* keyframe and one more than before after a delta.
C22_KeyframeRule ==
    [][ (isEncoding /\ Len(frames') = Len(frames) + 1)
        => LET f == inputs'[Len(inputs')]
               rec == frames'[Len(frames')]
               key == \/ IsNull(lastFrameData)
                      \/ framesSinceKeyframe >= keyframeInterval
                      \/ Val(lastFrameData).width # f.width
                      \/ Val(lastFrameData).height # f.height
           IN  /\ rec.type = (IF key THEN "f" ELSE "d")
               /\ framesSinceKeyframe' =
                    (IF key THEN 0 ELSE framesSinceKeyframe + 1) ]_vars

\* A session at interval 1 whose third frame, of the dimensions of the two
\* before, became a keyframe through the counter, after a delta.
C22_Witness ==
    /\ keyframeInterval = 1
    /\ Len(frames) = 3
    /\ SameDimensions
    /\ frames[2].type = "d"
    /\ frames[3].type = "f"
    /\ framesSinceKeyframe = 0

\* diff lists, as index and value in turn and in ascending order of index,
\* exactly the cells at which differs holds, each with its value in current.
IsExactDiff(diff, current, differs) ==
    /\ Len(diff) % 2 = 0
    /\ \A j \in 1..(Len(diff) \div 2) :
         /\ diff[2 * j - 1] + 1 \in differs
         /\ ~IsNull(current)
         /\ diff[2 * j] = Val(current)[diff[2 * j - 1] + 1]
         /\ j > 1 => diff[2 * j - 3] < diff[2 * j - 1]
    /\ \A k \in differs :
         \E j \in 1..(Len(diff) \div 2) : diff[2 * j - 1] = k - 1

\* The colour of cell k of a frame; Null where the frame has no colours.
ColourAt(f, k) == IF IsNull(f.colors) THEN Null ELSE Some(Val(f.colors)[k])

\* The diff member is left out when no cell differs and exact otherwise.
DiffMemberExact(member, current, differs) ==
    IF differs = {} THEN IsNull(member)
    ELSE ~IsNull(member) /\ IsExactDiff(Val(member), current, differs)

\* C23.  In every delta record, cd has exactly one (index, new value) pair
\* for every cell whose colour differs between the frame before and the new
\* frame and none for any other cell, in ascending order of index, and is
\* left out when no cell differs; id is the same for charIndices.
C23_DeltaDiffsExact ==
    \A i \in 2..Len(frames) :
        frames[i].type = "d"
        => LET cur == inputs[i]
               last == inputs[i - 1]
               cells == 1..(cur.width * cur.height)
           IN  /\ DiffMemberExact(frames[i].cd, cur.colors,
                     {k \in cells : ColourAt(cur, k) # ColourAt(last, k)})
               /\ DiffMemberExact(frames[i].id, Some(cur.charIndices),
                     {k \in cells : cur.charIndices[k] # last.charIndices[k]})

\* C24.  lastFrameData is a copy of the frame as it was when addFrame was
\* called: whatever the caller writes into its frame object afterwards,
\* lastFrameData keeps the contents of the call and every delta holds the
\* differences between the contents of two consecutive calls.
C24_LastFrameIsOwnCopy ==
    /\ Len(inputs) > 0
         => lastFrameData = Some(JSONCopyFrame(inputs[Len(inputs)]))
    /\ \A i \in 2..Len(frames) :
         frames[i].type = "d"
         => LET colorDiff == ColorDiff(inputs[i], inputs[i - 1])
                textDiff == TextDiff(inputs[i], inputs[i - 1])
            IN  /\ frames[i].cd = (IF Len(colorDiff) > 0 THEN Some(colorDiff)
                                   ELSE Null)
                /\ frames[i].id = (IF Len(textDiff) > 0 THEN Some(textDiff)
                                   ELSE Null)

\* The caller passed an object, wrote other cells into it and passed it
\* again: the second record is a delta from the first contents to the
\* second.
C24_Witness ==
    /\ Len(frames) = 2
    /\ 1 \in aliased
    /\ inputs[2] # inputs[1]
    /\ callerFrame = Some(inputs[2])
    /\ frames[2].type = "d"
    /\ ~IsNull(frames[2].cd)
    /\ ~IsNull(frames[2].id)

\* C25.  The frame stored in a keyframe record stays what the caller passed
\* at the call, whatever the caller writes into its object afterwards.
C25_KeyframeRecordIsCopy ==
    \A i \in 1..Len(frames) :
        frames[i].type = "f" => frames[i].d = Some(inputs[i])

\* C26.  An encoder that is not encoding holds no lastFrameData: stopAndSave
\* discards it.
C26_StopDiscardsLastFrame == ~isEncoding => IsNull(lastFrameData)

\* The records 0..k applied in order to an empty state.
RECURSIVE ReplayTo(_, _)
ReplayTo(frs, k) ==
    IF k < 0 THEN Null
    ELSE ApplyRecord(ReplayTo(frs, k - 1), frs[k + 1]).rf

\* C27.  On a document whose first record is a keyframe, after every loop
\* run that came to its end lastProcessedIndex is the target index of the
\* run and reconstructedFrame, which the renderer is given, is what the
\* records 0..target applied in order to an empty state yield, whatever the
\* times between the runs.
C27_TickCatchesUp ==
    ( /\ ~IsNull(lastTick)
      /\ IsNull(thrown)
      /\ ~IsNull(data)
      /\ Val(data).frames[1].type \in {"f", ""} )
    => /\ lastProcessedIndex = Val(lastTick).frameIndex
       /\ reconstructedFrame =
            ReplayTo(Val(data).frames, Val(lastTick).frameIndex)
       /\ rendered
       /\ delivered = reconstructedFrame

\* A run that went from record 0 to record 2 without a reset.
C27_Witness ==
    /\ data = Some(SampleDoc)
    /\ ~IsNull(lastTick)
    /\ IsNull(thrown)
    /\ ~Val(lastTick).reset
    /\ Val(lastTick).from = 0
    /\ Val(lastTick).frameIndex = 2
    /\ lastProcessedIndex = 2

\* C28.  On every loop run at whose elapsed time some record has a
\* timestamp that is not later, the target index is the highest index of
\* such a record.
C28_TargetIsHighestNotAfter ==
    (~IsNull(lastTick) /\ ~IsNull(data))
    => LET frs == Val(data).frames
           notAfter == {i \in 0..(Len(frs) - 1) :
                           frs[i + 1].t <= Val(lastTick).currentTime}
       IN  notAfter # {}
           => /\ Val(lastTick).frameIndex \in notAfter
              /\ \A i \in notAfter : i <= Val(lastTick).frameIndex

\* C29.  play and the loop leave the loaded document as it is: data changes
\* only in a load, to what the load parsed.
C29_PlaybackKeepsContainer ==
    [][ data' # data
        => /\ IsNull(lastTick')
           /\ ~rendered'
           /\ data' = LoadOutcome(Val(loadedText')).value ]_vars

\* Playback of the sample document that reached record 2, wrapped with a
\* reset and patched the new reconstruction with the delta of record 1; the
\* document is as loaded.
C29_Witness ==
    /\ data = Some(SampleDoc)
    /\ ~IsNull(lastTick)
    /\ now - startTime = 400
    /\ Val(lastTick).frameIndex = 1
    /\ lastProcessedIndex = 1
    /\ reconstructedFrame # SampleFrames[1].d
    /\ rendered

\* A document of one record is loaded.
SingleLoaded ==
    /\ ~IsNull(data)
    /\ Val(data).framesKind = "array"
    /\ Len(Val(data).frames) = 1

\* C30.  After play() on a document of one record has called the renderer,
\* no loop run calls it.
C30_SinglePlayRendersOnce ==
    [][ (SingleLoaded /\ rendered /\ IsNull(lastTick))
        => ~(rendered' /\ ~IsNull(lastTick')) ]_vars

\* The frame of a raster of one luminance in the given mode, without
\* auto-level.
QuantCase(mode) ==
    /\ ~IsNull(currentFrameData)
    /\ Val(currentFrameData).mode = mode
    /\ ~options.autoLevel
    /\ \A k \in 1..Len(Val(sample).px) :
         Val(sample).px[k].lum = Val(sample).px[1].lum

\* floor(L * n / 256) clamped to [0, n - 1].
ClaimedGray(L, n) == Max2(0, Min2((L * n) \div 256, n - 1))

\* What C31 states of every cell but the value at luminance 255.
GrayCells(f, L) ==
    LET n == Len(f.charset)
    IN  \A i \in 1..Len(f.charIndices) :
            LET k == f.charIndices[i]
            IN  /\ k = ClaimedGray(L, n)
                /\ 256 * k <= L * n
                /\ L * n < 256 * (k + 1)
                /\ \A L2 \in 0..L : ClaimedGray(L2, n) <= k
                /\ L = 0 => k = 0

\* C31 as stated.  In grayscale mode the index of a cell of luminance L
\* with a charset of n symbols is floor(L * n / 256) clamped to [0, n - 1],
\* non-decreasing in L, 0 at L = 0 and n - 1 at L = 255, for every n >= 1.
C31_GrayscaleIndexAnySize ==
    QuantCase("grayscale")
    => LET f == Val(currentFrameData)
           L == Val(sample).px[1].lum
       IN  /\ GrayCells(f, L)
           /\ L = 255
                => \A i \in 1..Len(f.charIndices) :
                     f.charIndices[i] = Len(f.charset) - 1

\* C31 amended.  As C31, with the value n - 1 at L = 255 for charsets of at
\* most 256 symbols only.
C31_GrayscaleIndex ==
    QuantCase("grayscale")
    => LET f == Val(currentFrameData)
           L == Val(sample).px[1].lum
       IN  /\ GrayCells(f, L)
           /\ (L = 255 /\ Len(f.charset) <= 256)
                => \A i \in 1..Len(f.charIndices) :
                     f.charIndices[i] = Len(f.charset) - 1

\* Luminance 255 with the ten-symbol charset: every cell has index 9.
C31_Witness ==
    /\ QuantCase("grayscale")
    /\ Val(currentFrameData).charset = DefaultCharset
    /\ Val(sample).px[1].lum = 255
    /\ \A i \in 1..16 : Val(currentFrameData).charIndices[i] = 9

\* floor((L / 256 + (bias - centre) / n) * n) clamped to [0, n - 1], with
\* bias = (bayer + 0.5) / 16 and centre in sixteenths: the argument of floor
\* is (L * n + 16 * bayer + 8 - 16 * centre) / 256.
ClaimedDither(L, bayer, n, centre) ==
    Max2(0, Min2((L * n + 16 * bayer + 8 - 16 * centre) \div 256, n - 1))

\* Every cell of the frame has the dither index with the given centre.
DitherCells(f, L, centre) ==
    \A i \in 1..Len(f.charIndices) :
        LET x == (i - 1) % f.width
            y == (i - 1) \div f.width
            bayer == BayerMatrix4x4[(y % 4) + 1][(x % 4) + 1]
        IN  f.charIndices[i] = ClaimedDither(L, bayer, Len(f.charset), centre)

\* C32 as stated.  In dither mode the index of the cell at (x, y) is
\* floor((L / 256 + bias / n) * n) clamped to [0, n - 1], with
\* bias = (bayer + 0.5) / 16 and bayer the matrix entry for
\* (x mod 4, y mod 4).
C32_DitherBiasUncentred ==
    QuantCase("dither")
    => DitherCells(Val(currentFrameData), Val(sample).px[1].lum, 0)

\* C32 amended.  As C32, with the bias centred: (bayer + 0.5) / 16 - 0.5.
C32_DitherBiasCentred ==
    QuantCase("dither")
    => DitherCells(Val(currentFrameData), Val(sample).px[1].lum, 8)

\* Luminance 14 with the ten-symbol charset: the cell at (1, 0), whose
\* matrix entry is 8, has index 0, and the cell at (0, 3), whose entry is
\* 15, has index 1.
C32_Witness ==
    /\ QuantCase("dither")
    /\ Val(currentFrameData).charset = DefaultCharset
    /\ Val(sample).px[1].lum = 14
    /\ Val(currentFrameData).charIndices[2] = 0
    /\ Val(currentFrameData).charIndices[13] = 1

\* C33.  In block mode the cell at column x of output row k is built from
\* the pixels at rows 2k and 2k + 1, each on when its luminance is above
\* 127.5; its index is 0, 1, 2, 3 for none, top only, bottom only, both,
\* its symbol is that entry of the block charset, and in the last row of a
\* raster of odd height, where the bottom pixel is the top pixel, the index
\* is 0 or 3.
C33_BlockCells ==
    ( /\ ~IsNull(currentFrameData)
      /\ Val(currentFrameData).mode = "block"
      /\ ~options.autoLevel )
    => LET f == Val(currentFrameData)
           im == Val(sample)
       IN  /\ f.charset = BlockCharset
           /\ \A x \in 0..(im.w - 1), k \in 0..(f.height - 1) :
                LET tOn == im.px[2 * k * im.w + x + 1].lum >= 128
                    bRow == IF 2 * k + 1 <= im.h - 1 THEN 2 * k + 1
                            ELSE 2 * k
                    bOn == im.px[bRow * im.w + x + 1].lum >= 128
                    idx == f.charIndices[k * im.w + x + 1]
                IN  /\ idx = (IF ~tOn /\ ~bOn THEN 0
                              ELSE IF tOn /\ ~bOn THEN 1
                              ELSE IF ~tOn /\ bOn THEN 2
                              ELSE 3)
                    /\ f.text[k * (im.w + 1) + x + 1] = BlockCharset[idx + 1]
                    /\ bRow = 2 * k => idx \in {0, 3}

\* A raster of three rows of luminance 128, 127, 128: the upper output row
\* has the top pixel on alone, the lower row both.
C33_Witness ==
    /\ ~IsNull(currentFrameData)
    /\ Val(currentFrameData).mode = "block"
    /\ Val(sample).w = 2
    /\ Val(sample).h = 3
    /\ Val(sample).px[1].lum = 128
    /\ Val(currentFrameData).charIndices = <<1, 1, 3, 3>>

\* C34.  With auto-level on, a raster of one luminance is quantized as
\* without auto-level: the curve is the identity.
C34_UniformLevelIsIdentity ==
    ( /\ ~IsNull(currentFrameData)
      /\ options.autoLevel
      /\ \A k \in 1..Len(Val(sample).px) :
           Val(sample).px[k].lum = Val(sample).px[1].lum )
    => currentFrameData =
         Some(AssembleFrame([options EXCEPT !.autoLevel = FALSE], Val(sample)))

\* The delta records at the end of frames.
TrailingDeltas ==
    Cardinality({i \in 1..Len(frames) :
                    \A j \in i..Len(frames) : frames[j].type = "d"})

\* C37.  framesSinceKeyframe is at least 0 and at most keyframeInterval and
\* is the number of delta records since the latest keyframe; frames never
\* has more than keyframeInterval delta records in a row.
C37_CounterCountsDeltas ==
    /\ framesSinceKeyframe \in 0..keyframeInterval
    /\ framesSinceKeyframe = TrailingDeltas
    /\ \A i \in 1..(Len(frames) - keyframeInterval) :
         \E j \in i..(i + keyframeInterval) : frames[j].type # "d"

\* At interval 1, a keyframe and one delta: the counter is at the interval.
C37_Witness ==
    /\ keyframeInterval = 1
    /\ Len(frames) = 2
    /\ frames[2].type = "d"
    /\ framesSinceKeyframe = 1

\* C38.  play() after pause() restarts: the clock starts at the time of the
\* call and the loop run of the call has elapsed time 0, starts from no
\* reconstruction and ends at record 0, rebuilt from record 0.
C38_PlayAfterPauseRestarts ==
    [][ (paused /\ ~paused')
        => /\ startTime' = now
           /\ (Val(data).framesKind = "array" /\ Len(Val(data).frames) = 1)
                => /\ IsNull(reconstructedFrame')
                   /\ lastProcessedIndex' = -1
           /\ (Val(data).framesKind = "array" /\ Len(Val(data).frames) > 1)
                => /\ ~IsNull(lastTick')
                   /\ Val(lastTick').currentTime = 0
                   /\ Val(lastTick').from = -1
                   /\ Val(lastTick').frameIndex = 0
                   /\ IsNull(thrown')
                        => /\ lastProcessedIndex' = 0
                           /\ reconstructedFrame' = ReplayTo(Val(data).frames, 0)
                           /\ delivered' = reconstructedFrame' ]_vars

\* The sample document played to record 2, paused until the loop ended and
\* played again at 320: the run of that play is at record 0.
C38_Witness ==
    /\ data = Some(SampleDoc)
    /\ ~paused
    /\ now = 320
    /\ startTime = 320
    /\ pending = 1
    /\ ~IsNull(lastTick)
    /\ Val(lastTick).from = -1
    /\ lastProcessedIndex = 0
    /\ delivered = SampleFrames[1].d

\* C39.  play() on a loaded document whose frames array is empty throws
\* nothing and calls the renderer with nothing.
C39_EmptyPlayIsQuiet ==
    ( /\ loadResult = "ok"
      /\ ~IsNull(data)
      /\ Val(data).framesKind = "array"
      /\ Len(Val(data).frames) = 0 )
    => IsNull(thrown) /\ ~rendered

\* C40.  After the decoder has applied keyframes and id deltas of a
\* recording, the text of its frame agrees with its charIndices: the
\* character of cell i, at text position floor(i/width)*(width+1) +
\* (i mod width), is charset[charIndices[i]], the text has
\* height*(width+1) characters, and every row ends with its separator.
C40_TextFollowsIndices ==
    ( /\ loadResult = "ok"
      /\ Len(dataInputs) > 0
      /\ ~IsNull(reconstructedFrame) )
    => LET rf == Val(reconstructedFrame)
       IN  /\ Len(rf.text) = rf.height * (rf.width + 1)
           /\ \A i \in 0..(rf.width * rf.height - 1) :
                LET textIdx == (i \div rf.width) * (rf.width + 1) + (i % rf.width)
                IN  /\ textIdx < Len(rf.text)
                    /\ i < Len(rf.charIndices)
                    /\ rf.text[textIdx + 1] = CharAt(rf.charset, rf.charIndices[i + 1])
           /\ \A row \in 0..(rf.height - 1) :
                LET sep == row * (rf.width + 1) + rf.width
                IN  sep < Len(rf.text) /\ rf.text[sep + 1] = "\n"

\* C36.  A td delta that the td encoder computed from frame A to frame B of
\* the same grid, of two rows or more, applied by the decoder to the
\* reconstruction of A, gives B's text, every row separator in its place.
C36_TdDeltaGivesText ==
    ( /\ loadResult = "ok"
      /\ lastProcessedIndex >= 1
      /\ lastProcessedIndex < Len(dataInputs)
      /\ Val(data).frames[lastProcessedIndex].type = "f"
      /\ Val(data).frames[lastProcessedIndex + 1].type = "d"
      /\ ~IsNull(Val(data).frames[lastProcessedIndex + 1].td)
      /\ dataInputs[lastProcessedIndex + 1].height >= 2 )
    => LET rf == Val(reconstructedFrame)
           B == dataInputs[lastProcessedIndex + 1]
       IN  /\ rf.text = B.text
           /\ \A row \in 0..(rf.height - 1) :
                LET sep == row * (rf.width + 1) + rf.width
                IN  sep < Len(rf.text) /\ rf.text[sep + 1] = "\n"

\* What drawFrame paints of a frame: its text and its colours on its grid.
Shown(f) == <<f.text, f.colors, f.width, f.height>>

\* C35.  The GIF export rebuilds the frames as VideoDecoder does: for
\* every record index k, the frame the export drew after record k shows
\* what the frame VideoDecoder has after applying the records 0..k shows
\* when drawn, deltas with palette-index diffs (id) included.
C35_ExportMatchesDecoder ==
    (~IsNull(exported) /\ ~IsNull(data) /\ Val(data).framesKind = "array")
    => \A k \in 0..(Len(Val(data).frames) - 1) :
         LET run == ApplyFrom(Val(data).frames, Null, -1, 0, k)
         IN  (IsNull(run.err) /\ ~IsNull(run.rf) /\ k < Len(Val(exported)))
             => Shown(Val(exported)[k + 1].frame)
                  = Shown(DrawnFrame(Val(run.rf)))

====
